---- MODULE Spec2Model ----
(***************************************************************************)
(* Feature registry lifecycle of extract-spfeatures / best-parses:         *)
(* discovery (extract_features), prune_and_renumber, count/export          *)
(* (feature_values, write_features) and restore (read_feature_ids).        *)
(*                                                                         *)
(* The registry holds the first two feature classes of the default         *)
(* catalogue nfeatures(): NLogP (Feature = int, always 0) and RightBranch  *)
(* (Feature = int, 0 or 1).  A candidate parse is given by what the two    *)
(* classes read from it: its negated log probability and the number of    *)
(* non-punctuation nodes off / on the rightmost branch.  The sentences     *)
(* explored are those of at most MaxParses parses whose parses weigh at    *)
(* most MaxWeight together.  Candidate indices are 0-based as in the code. *)
(***************************************************************************)
EXTENDS Integers, Sequences, FiniteSets, TLC

\* ---------------------------------------------------------------- bounds
MaxWeight == 2
MaxParses == 2
MaxSentences == 2
MaxRecords == 1
MaxMinCount == 2
MaxLines == 3
MaxDevParses == 5
MaxDevWeight == 3
MaxWeightLines == 2
MaxQuantized == 60
MaxWords == 2
MaxWidth == 2
MaxDepth == 4

\* ------------------------------------------------------------- catalogue
\* FeatureClassPtrs: the vector of feature classes, in push_back order
Catalogue == <<"NLogP", "RightBranch">>

Templates == 1..Len(Catalogue)

identifier(t) == Catalogue[t]

\* the Feature values a class can enumerate
FeatureSet(t) == IF identifier(t) = "NLogP" THEN {0} ELSE {0, 1}

\* the largest count a parse of the sentences explored can hold
Heaviest == IF MaxDevWeight > MaxWeight THEN MaxDevWeight ELSE MaxWeight

\* a candidate parse, as seen by the feature classes
ParseSet == [nlogp : 0..Heaviest, nonright : 0..Heaviest, right : 0..Heaviest]

\* what a parse contributes to the size of its sentence
Weight(p) == p.nlogp + p.nonright + p.right

\* the sentences of n parses whose parses weigh w together
RECURSIVE SentencesOf(_, _)
SentencesOf(n, w) ==
    IF n = 0 THEN (IF w = 0 THEN {<<>>} ELSE {})
    ELSE UNION {{[i \in 0..(n-1) |-> IF i = n - 1 THEN p ELSE s[i]] :
                    s \in SentencesOf(n - 1, w - Weight(p))} :
                 p \in {q \in ParseSet : Weight(q) <= w}}

\* sp_sentence_type: parses[0..nparses-1]
SentenceSet == UNION {SentencesOf(n, w) : n \in 0..MaxParses, w \in 0..MaxWeight}

\* the sentences of a development file
DevSentenceSet ==
    UNION {SentencesOf(n, w) : n \in 0..MaxDevParses, w \in 0..MaxDevWeight}

nparses(s) == Cardinality(DOMAIN s)

\* an sp_sentence_type holding no parse
NoSentence == <<>>

EmptyMap == <<>>

\* ------------------------------------------------------- parse_featurecount
\* n increments ++fc[f]
RECURSIVE Incr(_, _)
Incr(f, n) == IF n = 0 THEN <<>> ELSE <<(<<f, 1>>)>> \o Incr(f, n - 1)

\* RightBranch::rightbranch_count: ++fc[rightmost] for every
\* non-punctuation node, rightmost being 1 on the rightmost branch
rightbranch_count(p) == Incr(0, p.nonright) \o Incr(1, p.right)

\* the updates feat_count[f] += d a class makes on one parse
parse_featurecount(t, p) ==
    IF identifier(t) = "NLogP"
    THEN <<(<<0, p.nlogp>>)>>          \* feat_count[0] -= parse.logprob
    ELSE rightbranch_count(p)

\* m[k][parse] += d, on std::map<K, std::map<size_type,V> >; operator[]
\* creates missing entries with value 0
MapAdd(m, k, parse, d) ==
    LET old  == IF k \in DOMAIN m THEN m[k] ELSE EmptyMap
        oldv == IF parse \in DOMAIN old THEN old[parse] ELSE 0
        new  == [j \in DOMAIN old \cup {parse} |->
                    IF j = parse THEN oldv + d ELSE old[j]]
    IN  [g \in DOMAIN m \cup {k} |-> IF g = k THEN new ELSE m[g]]

\* FeatureParseVal::operator[] applied to a sequence of updates
RECURSIVE FeatureParseVal(_, _, _)
FeatureParseVal(f_p_v, parse, upd) ==
    IF upd = <<>> THEN f_p_v
    ELSE FeatureParseVal(MapAdd(f_p_v, Head(upd)[1], parse, Head(upd)[2]),
                         parse, Tail(upd))

\* for (i = 0; i < s.nparses(); ++i) fc.parse_featurecount(fc, s.parses[i], fpv)
RECURSIVE CollectFPV(_, _, _, _)
CollectFPV(t, s, i, f_p_v) ==
    IF i >= nparses(s) THEN f_p_v
    ELSE CollectFPV(t, s, i + 1,
                    FeatureParseVal(f_p_v, i, parse_featurecount(t, s[i])))

\* ------------------------------------------------------------- discovery
MinOf(S) == CHOOSE x \in S : \A y \in S : x <= y

\* pseudoconstant with the flag set when a value differs instead of cleared
pseudoconstant_Inverted(p_v, s) ==
    IF Cardinality(DOMAIN p_v) # nparses(s) THEN FALSE
    ELSE LET v0 == p_v[MinOf(DOMAIN p_v)]
         IN  \E i \in DOMAIN p_v : p_v[i] # v0

\* does the feature occur on every parse, with the same value?
pseudoconstant(p_v, s) ==
    IF Cardinality(DOMAIN p_v) # nparses(s) THEN FALSE
    ELSE LET v0 == p_v[MinOf(DOMAIN p_v)]
         IN  \A i \in DOMAIN p_v : p_v[i] = v0

\* the -c / -i filter with the test for parse 0 turned round
collected_FromOthers(p_v, cc, ci) ==
    \/ cc /\ 0 \notin DOMAIN p_v
    \/ ci /\ (0 \in DOMAIN p_v \/ Cardinality(DOMAIN p_v) > 1)

\* the -c / -i filter with -i taking every feature
collected_Lenient(p_v, cc, ci) ==
    \/ cc /\ 0 \in DOMAIN p_v
    \/ ci

\* the correct / incorrect filter on a non-pseudo-constant feature
collected(p_v, cc, ci) ==
    \/ cc /\ 0 \in DOMAIN p_v
    \/ ci /\ (0 \notin DOMAIN p_v \/ Cardinality(DOMAIN p_v) > 1)

\* the features of class t whose count the sentence increments
Retained(t, s, cc, ci) ==
    LET f_p_v == CollectFPV(t, s, 0, EmptyMap)
    IN  {f \in DOMAIN f_p_v :
            ~pseudoconstant(f_p_v[f], s) /\ collected(f_p_v[f], cc, ci)}

\* Increment counting once per candidate that holds the feature
Increment_PerCandidate(fid, f, p_v) ==
    (IF f \in DOMAIN fid THEN fid[f] ELSE 0) + Cardinality(DOMAIN p_v)

\* ++fc.feature_id[it->first], it->second being the feature's p_v
Increment(fid, f, p_v) == IF f \in DOMAIN fid THEN fid[f] + 1 ELSE 1

\* extract_features_helper counting every feature that occurs in the sentence
extract_features_helper_EveryFeature(t, fid, s, cc, ci) ==
    LET f_p_v == CollectFPV(t, s, 0, EmptyMap)
    IN  [f \in DOMAIN fid \cup DOMAIN f_p_v |->
            IF f \in DOMAIN f_p_v THEN Increment(fid, f, f_p_v[f]) ELSE fid[f]]

\* extract_features_helper forgetting the features the sentence does not tally
extract_features_helper_Forgetful(t, fid, s, cc, ci) ==
    IF nparses(s) <= 1 THEN fid
    ELSE LET f_p_v == CollectFPV(t, s, 0, EmptyMap)
             keep  == Retained(t, s, cc, ci)
         IN  [f \in keep |-> Increment(fid, f, f_p_v[f])]

extract_features_helper(t, fid, s, cc, ci) ==
    IF nparses(s) <= 1 THEN fid
    ELSE LET f_p_v == CollectFPV(t, s, 0, EmptyMap)
             keep  == Retained(t, s, cc, ci)
         IN  [f \in DOMAIN fid \cup keep |->
                 IF f \in keep THEN Increment(fid, f, f_p_v[f]) ELSE fid[f]]

\* extract_features_visitor: every class sees the sentence
extract_features_visitor(fids, s, cc, ci) ==
    [t \in Templates |-> extract_features_helper(t, fids[t], s, cc, ci)]

\* ------------------------------------------------- feature definition text
\* operator<< on an unsigned / int: the decimal digits, most significant first
RECURSIVE Decimal(_)
Decimal(n) == IF n < 10 THEN <<n>> ELSE Append(Decimal(n \div 10), n % 10)

\* operator>> on an unsigned / int: the number the digits denote
RECURSIVE ReadDecimal(_)
ReadDecimal(d) ==
    IF Len(d) = 0 THEN 0
    ELSE 10 * ReadDecimal(SubSeq(d, 1, Len(d) - 1)) + d[Len(d)]

\* the line "id \t identifier feature \n"
Line(id, fcident, f) == [id |-> Decimal(id), fcident |-> fcident, f |-> Decimal(f)]

\* the features of fid in increasing id order (std::sort of the (id, feature*)
\* pairs; ids are distinct whenever this is called on a renumbered table)
RECURSIVE SortedById(_, _)
SortedById(fid, todo) ==
    IF todo = {} THEN <<>>
    ELSE LET f == CHOOSE g \in todo : \A h \in todo : fid[g] <= fid[h]
         IN  <<f>> \o SortedById(fid, todo \ {f})

\* the id column written one too high
PrintedId_OneBased(fid, f) == fid[f] + 1

PrintedId(fid, f) == fid[f]

print_feature_ids_helper(t, fid) ==
    LET idfps == SortedById(fid, DOMAIN fid)
    IN  [k \in 1..Len(idfps) |->
            Line(PrintedId(fid, idfps[k]), identifier(t), idfps[k])]

\* ------------------------------------------------------ prune and renumber
\* the orders in which a hash_map may enumerate the keys of fid
IterationOrders(fid) ==
    {q \in [1..Cardinality(DOMAIN fid) -> DOMAIN fid] :
        \A a, b \in DOMAIN q : a # b => q[a] # q[b]}

\* Survives with a strict comparison
Survives_Strict(count, mincount) == count > mincount

Survives(count, mincount) == count >= mincount

\* the kept features, in enumeration order
RECURSIVE KeptInOrder(_, _, _)
KeptInOrder(fid, mincount, order) ==
    IF order = <<>> THEN <<>>
    ELSE (IF Survives(fid[Head(order)], mincount) THEN <<Head(order)>> ELSE <<>>)
         \o KeptInOrder(fid, mincount, Tail(order))

\* AssignedId numbering every class from the first id again
AssignedId_PerClass(nextid, k) == k - 1

\* fc.feature_id[*it] = nextid++ for the k-th kept feature
AssignedId(nextid, k) == nextid + (k - 1)

prune_and_renumber_helper(t, fid, mincount, nextid, order) ==
    LET fs  == KeptInOrder(fid, mincount, order)
        new == [f \in {fs[k] : k \in 1..Len(fs)} |->
                   AssignedId(nextid, CHOOSE k \in 1..Len(fs) : fs[k] = f)]
    IN  [fid    |-> new,
         nextid |-> nextid + Len(fs),
         os     |-> print_feature_ids_helper(t, new)]

FirstId == 0

\* FeatureClassPtrs::prune_and_renumber: the classes in list order, each
\* starting at the nextid the previous one returned
RECURSIVE PruneFrom(_, _, _, _, _, _)
PruneFrom(t, fids, mincount, nextid, orders, os) ==
    IF t > Len(Catalogue) THEN [fids |-> fids, nextid |-> nextid, os |-> os]
    ELSE LET r == prune_and_renumber_helper(t, fids[t], mincount, nextid, orders[t])
         IN  PruneFrom(t + 1, [fids EXCEPT ![t] = r.fid], mincount, r.nextid,
                       orders, os \o r.os)

prune_and_renumber(fids, mincount, orders) ==
    PruneFrom(1, fids, mincount, FirstId, orders, <<>>)

\* feature_id[f] in place of feature_id.find(f): inserts a missing f
find_OrInsert(fid, f) ==
    [fc |-> IF f \in DOMAIN fid THEN fid ELSE (f :> 0) @@ fid,
     found |-> TRUE,
     id |-> IF f \in DOMAIN fid THEN fid[f] ELSE 0]

\* ---------------------------------------------------------- count / export
\* IdParseVal::operator[]: fc.feature_id.find(f)
find(fid, f) ==
    [fc |-> fid, found |-> f \in DOMAIN fid,
     id |-> IF f \in DOMAIN fid THEN fid[f] ELSE 0]

\* IdParseVal::operator[] without the ignored bucket: a feature with no id
\* is counted under the default-constructed Id
IdParseValAdd_NoIgnored(ipv, parse, f, d) ==
    [ipv EXCEPT !.f_p_v = MapAdd(ipv.f_p_v,
                                 IF f \in DOMAIN ipv.fc THEN ipv.fc[f] ELSE 0,
                                 parse, d)]

\* IdParseVal::operator[](f) += d for the parse ipv.parse
IdParseValAdd(ipv, parse, f, d) ==
    LET it == find(ipv.fc, f)
    IN  IF it.found
        THEN [ipv EXCEPT !.fc = it.fc,
                         !.f_p_v = MapAdd(ipv.f_p_v, it.id, parse, d)]
        ELSE [ipv EXCEPT !.fc = it.fc, !.ignored = ipv.ignored + d]

RECURSIVE IdParseVal(_, _, _)
IdParseVal(ipv, parse, upd) ==
    IF upd = <<>> THEN ipv
    ELSE IdParseVal(IdParseValAdd(ipv, parse, Head(upd)[1], Head(upd)[2]),
                    parse, Tail(upd))

RECURSIVE CollectIPV(_, _, _, _)
CollectIPV(t, s, i, ipv) ==
    IF i >= nparses(s) THEN ipv
    ELSE CollectIPV(t, s, i + 1,
                    IdParseVal(ipv, i, parse_featurecount(t, s[i])))

\* dfind(parse_val, i): the value at i, 0 when there is none
dfind(parse_val, i) == IF i \in DOMAIN parse_val THEN parse_val[i] ELSE 0

\* val_gain[k] += w on std::map<V, size_type>
Gain(val_gain, k, w) ==
    [j \in DOMAIN val_gain \cup {k} |->
        (IF j \in DOMAIN val_gain THEN val_gain[j] ELSE 0) + (IF j = k THEN w ELSE 0)]

\* the two weights of the histogram taken for each other
RECURSIVE ValGain_Swapped(_, _, _, _)
ValGain_Swapped(parse_val, s, i, val_gain) ==
    IF i >= nparses(s) THEN val_gain
    ELSE LET val == dfind(parse_val, i)
         IN  ValGain_Swapped(parse_val, s, i + 1,
                             Gain(Gain(val_gain, val, 1), val - 1, 2))

RECURSIVE ValGain(_, _, _, _)
ValGain(parse_val, s, i, val_gain) ==
    IF i >= nparses(s) THEN val_gain
    ELSE LET val == dfind(parse_val, i)
         IN  ValGain(parse_val, s, i + 1,
                     Gain(Gain(val_gain, val, 2), val - 1, 1))

\* the keys of the table iterated from the largest down
RECURSIVE KeysInOrder_Descending(_)
KeysInOrder_Descending(keys) ==
    IF keys = {} THEN <<>>
    ELSE LET k == CHOOSE x \in keys : \A y \in keys : y <= x
         IN  <<k>> \o KeysInOrder_Descending(keys \ {k})

\* std::map<V, size_type>: iteration is in increasing key order
RECURSIVE KeysInOrder(_)
KeysInOrder(keys) ==
    IF keys = {} THEN <<>>
    ELSE <<MinOf(keys)>> \o KeysInOrder(keys \ {MinOf(keys)})

\* max_element(xs, second_lessthan()): the first element met in the iteration
\* whose second component no element exceeds
RECURSIVE max_element(_, _, _)
max_element(todo, val_gain, best) ==
    IF todo = <<>> THEN best
    ELSE max_element(Tail(todo), val_gain,
                     IF val_gain[best] < val_gain[Head(todo)]
                     THEN Head(todo) ELSE best)

\* the first element of val_gain taken instead of its greatest
highest_gain_val_Begin(val_gain) == Head(KeysInOrder(DOMAIN val_gain))

\* max_element(val_gain, second_lessthan())->first
highest_gain_val(val_gain) ==
    LET keys == KeysInOrder(DOMAIN val_gain)
    IN  max_element(Tail(keys), val_gain, Head(keys))

\* the value subtracted when absolute_counts is not looked at
Subtracted_AlwaysRelative(parse_val, s, absolute) ==
    highest_gain_val(ValGain(parse_val, s, 0, EmptyMap))

\* the value subtracted from the raw counts of one feature
Subtracted(parse_val, s, absolute) ==
    IF absolute THEN 0
    ELSE highest_gain_val(ValGain(parse_val, s, 0, EmptyMap))

\* parse_fid_val[i][feat] = val for every parse, a val of 0 included
PutFeature_KeepsZero(p_i_v, s, feat, parse_val, absolute) ==
    LET m == Subtracted(parse_val, s, absolute)
    IN  [i \in DOMAIN p_i_v |-> (feat :> (dfind(parse_val, i) - m)) @@ p_i_v[i]]

\* parse_fid_val[i][feat] = val for every parse whose val is not 0
PutFeature(p_i_v, s, feat, parse_val, absolute) ==
    LET m == Subtracted(parse_val, s, absolute)
    IN  [i \in DOMAIN p_i_v |->
            IF dfind(parse_val, i) - m # 0
            THEN (feat :> (dfind(parse_val, i) - m)) @@ p_i_v[i]
            ELSE p_i_v[i]]

\* cforeach (F_C_V, fit, f_p_v), in key order
RECURSIVE PutFeatures(_, _, _, _, _)
PutFeatures(p_i_v, s, f_p_v, todo, absolute) ==
    IF todo = {} THEN p_i_v
    ELSE LET feat == MinOf(todo)
         IN  PutFeatures(PutFeature(p_i_v, s, feat, f_p_v[feat], absolute),
                         s, f_p_v, todo \ {feat}, absolute)

\* sentence_parsefidvals with Fid_Parse_Val = IdParseVal, called by
\* feature_values_helper: the class's table afterwards, and parse_fid_val
feature_values_helper(t, fid, s, p_i_v, absolute) ==
    LET ipv == CollectIPV(t, s, 0, [fc |-> fid, f_p_v |-> EmptyMap, ignored |-> 0])
    IN  [fc    |-> ipv.fc,
         p_i_v |-> PutFeatures(p_i_v, s, ipv.f_p_v, DOMAIN ipv.f_p_v, absolute)]

\* cforeach (FeatureClassPtrs, it, *this) (*it)->feature_values(sentence, p_i_v)
RECURSIVE FeatureValuesFrom(_, _, _, _, _)
FeatureValuesFrom(t, fids, s, p_i_v, absolute) ==
    IF t > Len(Catalogue) THEN [fids |-> fids, p_i_v |-> p_i_v]
    ELSE LET r == feature_values_helper(t, fids[t], s, p_i_v, absolute)
         IN  FeatureValuesFrom(t + 1, [fids EXCEPT ![t] = r.fc], s, r.p_i_v, absolute)

\* p_i_v.clear(); p_i_v.resize(sentence.nparses()); then every class
feature_values(fids, s, absolute) ==
    FeatureValuesFrom(1, fids, s, [i \in DOMAIN s |-> EmptyMap], absolute)

\* ------------------------------------------------------ feature-counts file
\* "%g" of a Float that holds a whole number: a sign and the decimal digits
FormatG(v) == [neg |-> v < 0, digits |-> Decimal(IF v < 0 THEN 0 - v ELSE v)]

\* the number a "%g" text denotes
ReadG(g) == IF g.neg THEN 0 - ReadDecimal(g.digits) ELSE ReadDecimal(g.digits)

\* a field with no "=value" part
NoValue == [neg |-> FALSE, digits |-> <<>>]

\* every field written as id=value
WriteField_AlwaysValue(id, v) == [id |-> Decimal(id), eq |-> TRUE, value |-> FormatG(v)]

\* if (it->second == 1) fprintf(out, " id") else fprintf(out, " id=%g")
WriteField(id, v) ==
    IF v = 1 THEN [id |-> Decimal(id), eq |-> FALSE, value |-> NoValue]
    ELSE [id |-> Decimal(id), eq |-> TRUE, value |-> FormatG(v)]

\* cforeach (Id_Float, it, i_v) ...; fprintf(out, ","): the fields of one
\* candidate in the order of the std::map, then the comma
WriteList(i_v) ==
    LET keys == KeysInOrder(DOMAIN i_v)
    IN  [fields |-> [k \in 1..Len(keys) |-> WriteField(keys[k], i_v[keys[k]])],
         end |-> ","]

\* the record of one sentence: N= and one list per parse j = 0, 1, ...
\* (G=, P= and W= come from the gold edges and are left out)
write_features_sentence(s, p_i_v) ==
    [N |-> nparses(s), lists |-> [j \in 1..nparses(s) |-> WriteList(p_i_v[j - 1])]]

\* no record
NoRecord == [N |-> 0, lists |-> <<>>]

\* ------------------------------------------------------------------ restore
\* fcident_fcp[(*it)->identifier()] = *it: the last class with the identifier
fcident_fcp(fcident) ==
    LET ts == {t \in Templates : identifier(t) = fcident}
    IN  IF ts = {} THEN 0 ELSE CHOOSE t \in ts : \A u \in ts : u <= t

\* read_feature_helper without the test of inserted: a feature the table
\* holds keeps its id and reading goes on
read_feature_helper_KeepFirst(fid, f, id) ==
    [ok |-> TRUE, fid |-> IF f \in DOMAIN fid THEN fid ELSE (f :> id) @@ fid]

\* read_feature_helper: is >> f; feature_id.insert(FI(f, id)); a duplicate
\* feature exits
read_feature_helper(fid, f, id) ==
    IF f \in DOMAIN fid THEN [ok |-> FALSE, fid |-> fid]
    ELSE [ok |-> TRUE, fid |-> (f :> id) @@ fid]

NewMaxId(id, maxid) == IF id > maxid THEN id ELSE maxid

\* FeatureClassPtrs::read_feature_ids on the lines of the stream
RECURSIVE read_feature_ids(_, _, _)
read_feature_ids(fids, maxid, is) ==
    IF is = <<>> THEN [status |-> "ok", fids |-> fids, maxid |-> maxid]
    ELSE LET id == ReadDecimal(Head(is).id)
             t  == fcident_fcp(Head(is).fcident)
         IN  IF t = 0
             THEN [status |-> "exit", fids |-> fids, maxid |-> maxid]
             ELSE LET r == read_feature_helper(fids[t], ReadDecimal(Head(is).f), id)
                  IN  IF ~r.ok
                      THEN [status |-> "exit", fids |-> fids, maxid |-> maxid]
                      ELSE read_feature_ids([fids EXCEPT ![t] = r.fid],
                                            NewMaxId(id, maxid), Tail(is))

\* --------------------------------------------------------- shared vocabulary
\* is feature f of class t observed on parse p (does the class touch its count)?
Observed(t, f, p) ==
    IF identifier(t) = "NLogP" THEN f = 0
    ELSE (f = 0 /\ p.nonright > 0) \/ (f = 1 /\ p.right > 0)

\* the raw count of feature f of class t on parse p (0 when not observed)
RawCount(t, f, p) ==
    IF identifier(t) = "NLogP" THEN (IF f = 0 THEN p.nlogp ELSE 0)
    ELSE IF f = 0 THEN p.nonright ELSE IF f = 1 THEN p.right ELSE 0

\* the count / id a table holds for f, 0 when it holds none
Tally(fid, f) == IF f \in DOMAIN fid THEN fid[f] ELSE 0

\* the (class, feature) pairs that hold an id
Instances(fids) == {tf \in Templates \X {0, 1} : tf[2] \in DOMAIN fids[tf[1]]}

IdOf(fids, tf) == fids[tf[1]][tf[2]]

IdSet(fids) == {IdOf(fids, tf) : tf \in Instances(fids)}

\* observed on every candidate of s, with the same count on all of them
SameOnEveryCandidate(t, f, s) ==
    /\ \A i \in DOMAIN s : Observed(t, f, s[i])
    /\ \A i, j \in DOMAIN s : RawCount(t, f, s[i]) = RawCount(t, f, s[j])

\* the parses of s that feature f of class t is observed on, with its count
ObservedCounts(t, f, s) ==
    [i \in {j \in DOMAIN s : Observed(t, f, s[j])} |-> RawCount(t, f, s[i])]

\* what feature f of class t contributes to candidate i of s, by itself
ExportedValue(t, f, s, i, absolute) ==
    LET parse_val == ObservedCounts(t, f, s)
    IN  dfind(parse_val, i) - Subtracted(parse_val, s, absolute)

\* the vector of candidate i of s, from the features that hold an id alone
ExpectedVector(fids, s, i, absolute) ==
    LET on == {tf \in Instances(fids) :
                  /\ DOMAIN ObservedCounts(tf[1], tf[2], s) # {}
                  /\ ExportedValue(tf[1], tf[2], s, i, absolute) # 0}
    IN  [id \in {IdOf(fids, tf) : tf \in on} |->
            LET tf == CHOOSE x \in on : IdOf(fids, x) = id
            IN  ExportedValue(tf[1], tf[2], s, i, absolute)]

\* -------------------------------------------------------------------- state
VARIABLES
    collect_correct,    \* -c
    collect_incorrect,  \* -i
    absolute_counts,    \* -a
    mincount,           \* -s
    pc,                 \* where main() of extract-spfeatures is
    sentence,           \* the sentence read last, empty between two
    feature_id,         \* feature_id of every class of fcps
    nread,              \* sentences read by extract_features so far
    nambiguous,         \* those of them with 2 or more parses
    nprune,             \* calls of prune_and_renumber so far
    ndropped,           \* features prune_and_renumber removed
    maxid,              \* what prune_and_renumber returned
    cout,               \* the feature definitions written to standard output
    p_i_v,              \* the feature vectors of the sentence being written
    nrecords,           \* feature-count records written so far
    bp_pc,              \* where main() of best-parses is
    bp_feature_id,      \* feature_id of every class of best-parses' fcps
    bp_maxid            \* what read_feature_ids returned

\* the state of the runs of best-parses on files of its own
VARIABLES
    fdin,               \* the feature-definition file best-parses is given
    out,                \* the record write_features wrote for the sentence at hand
    fwin,               \* the feature-weights file best-parses is given
    nweights,           \* lines of fwin that best-parses has stored
    weights,            \* std::vector<Float> weights of best-parses
    call,               \* the arguments of a utility function called on its own
    ret                 \* what the function called on its own has returned

aux == <<fdin, fwin, nweights, weights, call, ret>>

\* no utility function is called on its own
NoCall ==
    /\ call = <<>>
    /\ ret = <<>>

\* best-parses has not come to its weights file
NoWeightsFile ==
    /\ fwin = <<>>
    /\ nweights = 0
    /\ weights = <<>>

main == <<collect_correct, collect_incorrect, absolute_counts, mincount, pc,
          sentence, feature_id, nread, nambiguous, nprune, ndropped, maxid, cout,
          p_i_v, out, nrecords, bp_pc, bp_feature_id, bp_maxid>>

vars == <<main, aux>>

options == <<collect_correct, collect_incorrect, absolute_counts, mincount>>
pruned == <<nprune, ndropped, maxid, cout>>
bestparses == <<bp_pc, bp_feature_id, bp_maxid>>

\* a freshly constructed FeatureClassPtrs: every feature_id is empty
FreshTables == [t \in Templates |-> EmptyMap]

\* main() after the options are read; it exits unless -c or -i is set
Init ==
    /\ collect_correct \in BOOLEAN
    /\ collect_incorrect \in BOOLEAN
    /\ collect_correct \/ collect_incorrect
    /\ absolute_counts \in BOOLEAN
    /\ mincount \in 0..MaxMinCount
    /\ pc = "extract_read"
    /\ sentence = NoSentence
    /\ feature_id = FreshTables
    /\ nread = 0
    /\ nambiguous = 0
    /\ nprune = 0
    /\ ndropped = 0
    /\ maxid = 0
    /\ cout = <<>>
    /\ p_i_v = <<>>
    /\ out = NoRecord
    /\ nrecords = 0
    /\ bp_pc = "start"
    /\ bp_feature_id = FreshTables
    /\ bp_maxid = 0
    /\ fdin = <<>>
    /\ NoWeightsFile
    /\ NoCall

\* main() going from extract_features straight to write_features
AfterExtract_SkipPrune == "write_read"

\* what main() does once extract_features has returned
AfterExtract == "prune"

\* ------------------------------------------------------------------ actions
\* map_sentences_cmd reads the next training sentence
ReadTrainSentence ==
    /\ pc = "extract_read"
    /\ nread < MaxSentences
    /\ \E s \in SentenceSet : sentence' = s
    /\ nread' = nread + 1
    /\ pc' = "extract_visit"
    /\ UNCHANGED <<aux, options, feature_id, nambiguous, pruned, p_i_v, out,
                   nrecords, bestparses>>

\* extract_features_visitor::operator() on the sentence read
ExtractFeatures ==
    /\ pc = "extract_visit"
    /\ feature_id' = extract_features_visitor(feature_id, sentence,
                                              collect_correct, collect_incorrect)
    /\ nambiguous' = IF nparses(sentence) >= 2 THEN nambiguous + 1 ELSE nambiguous
    /\ pc' = "extract_next"
    /\ UNCHANGED <<aux, options, sentence, nread, pruned, p_i_v, out,
                   nrecords, bestparses>>

\* back to the head of the sentence loop
NextTrainSentence ==
    /\ pc = "extract_next"
    /\ sentence' = NoSentence
    /\ pc' = "extract_read"
    /\ UNCHANGED <<aux, options, feature_id, nread, nambiguous, pruned,
                   p_i_v, out, nrecords, bestparses>>

\* the training corpus is exhausted: extract_features returns
EndOfTrainingData ==
    /\ pc = "extract_read"
    /\ pc' = AfterExtract
    /\ UNCHANGED <<aux, options, sentence, feature_id, nread, nambiguous, pruned, p_i_v, out, nrecords, bestparses>>

\* Id maxid = fcps.prune_and_renumber(mincount), writing to std::cout
PruneAndRenumber ==
    /\ pc = "prune"
    /\ \E orders \in [Templates -> UNION {IterationOrders(feature_id[t]) : t \in Templates}] :
          /\ \A t \in Templates : orders[t] \in IterationOrders(feature_id[t])
          /\ LET r == prune_and_renumber(feature_id, mincount, orders)
             IN  /\ feature_id' = r.fids
                 /\ maxid' = r.nextid
                 /\ cout' = cout \o r.os
    /\ nprune' = nprune + 1
    /\ ndropped' = ndropped + Cardinality(Instances(feature_id))
                            - Cardinality(Instances(feature_id'))
    /\ nread' = 0
    /\ nambiguous' = 0
    /\ pc' = "write_read"
    /\ UNCHANGED <<aux, options, sentence, p_i_v, out, nrecords, bestparses>>

\* write_features: sentence.read(parsein, goldin, lowercase_flag)
ReadSentence ==
    /\ pc = "write_read"
    /\ nrecords < MaxRecords
    /\ \E s \in SentenceSet : sentence' = s
    /\ pc' = "write_record"
    /\ UNCHANGED <<aux, options, feature_id, nread, nambiguous, pruned,
                   p_i_v, out, nrecords, bestparses>>

\* write_features: the feature vectors of the sentence, and its record
WriteFeatures ==
    /\ pc = "write_record"
    /\ LET r == feature_values(feature_id, sentence, absolute_counts)
       IN  /\ feature_id' = r.fids
           /\ p_i_v' = r.p_i_v
           /\ out' = write_features_sentence(sentence, r.p_i_v)
    /\ nrecords' = nrecords + 1
    /\ pc' = "write_next"
    /\ UNCHANGED <<aux, options, sentence, nread, nambiguous, pruned,
                   bestparses>>

\* back to the head of the sentence loop of write_features
NextSentence ==
    /\ pc = "write_next"
    /\ sentence' = NoSentence
    /\ p_i_v' = <<>>
    /\ out' = NoRecord
    /\ pc' = "write_read"
    /\ UNCHANGED <<aux, options, feature_id, nread, nambiguous, pruned,
                   nrecords, bestparses>>

\* the training and development files are written: main() returns
EndOfMain ==
    /\ pc = "write_read"
    /\ pc' = "done"
    /\ UNCHANGED <<aux, options, sentence, feature_id, nread, nambiguous, pruned, p_i_v, out, nrecords, bestparses>>

\* best-parses: Id maxid = fcps.read_feature_ids(fdin) on the definitions
\* extract-spfeatures wrote, into the same catalogue freshly constructed
ReadFeatureIds ==
    /\ pc = "done"
    /\ bp_pc = "start"
    /\ LET r == read_feature_ids(FreshTables, 0, cout)
       IN  /\ bp_feature_id' = r.fids
           /\ bp_maxid' = r.maxid
           /\ bp_pc' = IF r.status = "ok" THEN "restored" ELSE "exit"
    /\ UNCHANGED <<aux, options, pc, sentence, feature_id, nread, nambiguous, pruned, p_i_v, out, nrecords>>

Next ==
    \/ ReadTrainSentence
    \/ ExtractFeatures
    \/ NextTrainSentence
    \/ EndOfTrainingData
    \/ PruneAndRenumber
    \/ ReadSentence
    \/ WriteFeatures
    \/ NextSentence
    \/ EndOfMain
    \/ ReadFeatureIds

Spec == Init /\ [][Next]_vars

TypeOK ==
    /\ pc \in {"extract_read", "extract_visit", "extract_next", "prune",
               "write_read", "write_record", "write_next", "done"}
    /\ sentence \in SentenceSet
    /\ \A t \in Templates : DOMAIN feature_id[t] \subseteq FeatureSet(t)
    /\ bp_pc \in {"start", "restored", "exit"}

\* ------------------------------------------- best-parses on a file of its own
\* extract-spfeatures takes no part: its globals as they are initialised
NoExtraction ==
    /\ collect_correct = FALSE
    /\ collect_incorrect = FALSE
    /\ absolute_counts = FALSE
    /\ mincount = 5
    /\ pc = "done"
    /\ sentence = NoSentence
    /\ feature_id = FreshTables
    /\ nread = 0
    /\ nambiguous = 0
    /\ nprune = 0
    /\ ndropped = 0
    /\ maxid = 0
    /\ cout = <<>>
    /\ p_i_v = <<>>
    /\ out = NoRecord
    /\ nrecords = 0

extraction == <<options, pc, sentence, feature_id, nread, nambiguous, pruned,
                p_i_v, out, nrecords>>

\* a class identifier that the catalogue in use does not hold
Unregistered == "Heavy"

\* the lines a feature-definition file is made of: an id, an identifier and
\* a feature of the class named, or of no class
LineSet ==
    UNION {{Line(id, identifier(t), f) : id \in 0..(MaxLines - 1),
                                         f \in FeatureSet(t)} : t \in Templates}
    \cup {Line(id, Unregistered, 0) : id \in 0..(MaxLines - 1)}

FileSet == UNION {[1..n -> LineSet] : n \in 0..MaxLines}

InitRestore ==
    /\ NoExtraction
    /\ bp_pc = "start"
    /\ bp_feature_id = FreshTables
    /\ bp_maxid = 0
    /\ fdin \in FileSet
    /\ NoWeightsFile
    /\ NoCall

\* best-parses: Id maxid = fcps.read_feature_ids(fdin), fdin being any file
ReadFeatureIdsFrom ==
    /\ bp_pc = "start"
    /\ LET r == read_feature_ids(bp_feature_id, 0, fdin)
       IN  /\ bp_feature_id' = r.fids
           /\ bp_maxid' = r.maxid
           /\ bp_pc' = IF r.status = "ok" THEN "restored" ELSE "exit"
    /\ UNCHANGED <<extraction, aux>>

NextRestore ==
    \/ ReadFeatureIdsFrom

SpecRestore == InitRestore /\ [][NextRestore]_vars

\* the class a line names, 0 when the catalogue holds none of the name
LineClass(line) ==
    IF \E t \in Templates : identifier(t) = line.fcident
    THEN CHOOSE t \in Templates : identifier(t) = line.fcident
    ELSE 0

\* line k of the file names no class, or names the class and feature of an
\* earlier line
Offending(file, k) ==
    \/ LineClass(file[k]) = 0
    \/ \E j \in 1..(k - 1) :
          file[j].fcident = file[k].fcident /\ file[j].f = file[k].f

\* the first offending line of the file, 0 when there is none
FirstOffending(file) ==
    IF \E k \in 1..Len(file) : Offending(file, k)
    THEN MinOf({k \in 1..Len(file) : Offending(file, k)})
    ELSE 0

\* the tables that the first n lines of the file define
TablesOf(file, n) ==
    [t \in Templates |->
        LET ks == {k \in 1..n : LineClass(file[k]) = t}
        IN  [f \in {ReadDecimal(file[k].f) : k \in ks} |->
                LET k == CHOOSE j \in ks : ReadDecimal(file[j].f) = f
                IN  ReadDecimal(file[k].id)]]

\* --------------------------------------------- best-parses: the weights file
\* the weights a line of the file may give
WeightValues == {0 - 1, 0, 1}

\* the line "id=weight"
WeightLine(id, weight) == [id |-> Decimal(id), weight |-> FormatG(weight)]

\* the lines a weights file is made of: the ids a definition file may use and
\* one id beyond them
WeightLineSet == {WeightLine(id, w) : id \in 0..MaxLines, w \in WeightValues}

WeightFileSet == UNION {[1..n -> WeightLineSet] : n \in 0..MaxWeightLines}

\* the definition files of one line at most that read_feature_ids accepts
ShortFileSet ==
    {file \in UNION {[1..n -> LineSet] : n \in 0..1} : FirstOffending(file) = 0}

InitWeights ==
    /\ NoExtraction
    /\ bp_pc = "start"
    /\ bp_feature_id = FreshTables
    /\ bp_maxid = 0
    /\ fdin \in ShortFileSet
    /\ fwin \in WeightFileSet
    /\ nweights = 0
    /\ weights = <<>>
    /\ NoCall

\* std::vector<Float> weights(maxid+1): every weight 0
OpenWeights ==
    /\ bp_pc = "restored"
    /\ weights' = [id \in 0..bp_maxid |-> 0]
    /\ bp_pc' = "weights"
    /\ UNCHANGED <<extraction, bp_feature_id, bp_maxid, fdin, fwin, call, ret, nweights>>

\* only the range of the id asserted
Asserted_RangeOnly(w, top, id) == id <= top

\* assert(id <= maxid); assert(weights[id] == 0)
Asserted(w, top, id) == id <= top /\ w[id] = 0

\* one turn of while (fwin >> id >> "=" >> weight): a failed assertion
\* aborts, otherwise weights[id] = weight
ReadWeight ==
    /\ bp_pc = "weights"
    /\ nweights < Len(fwin)
    /\ LET id == ReadDecimal(fwin[nweights + 1].id)
           weight == ReadG(fwin[nweights + 1].weight)
       IN  IF Asserted(weights, bp_maxid, id)
           THEN /\ weights' = [weights EXCEPT ![id] = weight]
                /\ nweights' = nweights + 1
                /\ bp_pc' = bp_pc
           ELSE /\ bp_pc' = "abort"
                /\ UNCHANGED <<weights, nweights>>
    /\ UNCHANGED <<extraction, bp_feature_id, bp_maxid, fdin, fwin, call, ret>>

\* the end of the weights file: best-parses goes on to the sentences
EndOfWeights ==
    /\ bp_pc = "weights"
    /\ nweights = Len(fwin)
    /\ bp_pc' = "loaded"
    /\ UNCHANGED <<extraction, bp_feature_id, bp_maxid, aux>>

NextWeights ==
    \/ ReadFeatureIdsFrom
    \/ OpenWeights
    \/ ReadWeight
    \/ EndOfWeights

SpecWeights == InitWeights /\ [][NextWeights]_vars

\* the id and the weight of line k of a weights file
IdAt(file, k) == ReadDecimal(file[k].id)
WeightAt(file, k) == ReadG(file[k].weight)

\* the file names the same id on two lines
Duplicated(file) ==
    \E h, k \in 1..Len(file) : h < k /\ IdAt(file, h) = IdAt(file, k)

\* the file names an id above the top id
OutOfRange(file, top) == \E k \in 1..Len(file) : IdAt(file, k) > top

\* line k names an id above the top id, or the id of an earlier line of weight
\* other than 0
Rejected(file, top, k) ==
    \/ IdAt(file, k) > top
    \/ \E h \in 1..(k - 1) : IdAt(file, h) = IdAt(file, k) /\ WeightAt(file, h) # 0

\* the ids that no line of the file names
Unmentioned(file, top) == {id \in 0..top : \A k \in 1..Len(file) : IdAt(file, k) # id}

\* ------------------------------------------------------- the quantizer alone
\* quantize: assert(v >= 0), then the switch on v
quantize_ThreeIsThree(v) ==
    IF v < 0 THEN [status |-> "abort", value |-> 0]
    ELSE [status |-> "ok",
          value |-> CASE v = 0 -> 0
                      [] v = 1 -> 1
                      [] v = 2 -> 2
                      [] v = 3 -> 3
                      [] v = 4 -> 4
                      [] OTHER -> 5]

quantize(v) ==
    IF v < 0 THEN [status |-> "abort", value |-> 0]
    ELSE [status |-> "ok",
          value |-> CASE v = 0 -> 0
                      [] v = 1 -> 1
                      [] v = 2 -> 2
                      [] v = 3 -> 4
                      [] v = 4 -> 4
                      [] OTHER -> 5]

\* static symbol zero("0"), one("1"), two("2"), four("4"), five("5"): a symbol
\* is the text it was made from
zero == <<"0">>
one == <<"1">>
two == <<"2">>
four == <<"4">>
five == <<"5">>

\* symbol_quantize: assert(v >= 0), then the switch on v
symbol_quantize(v) ==
    IF v < 0 THEN [status |-> "abort", value |-> <<>>]
    ELSE [status |-> "ok",
          value |-> CASE v = 0 -> zero
                      [] v = 1 -> one
                      [] v = 2 -> two
                      [] v = 3 -> four
                      [] v = 4 -> four
                      [] OTHER -> five]

\* the characters of the decimal digits
DigitChars == <<"0", "1", "2", "3", "4", "5", "6", "7", "8", "9">>

\* the decimal text of n
Numeral(n) == [k \in DOMAIN Decimal(n) |-> DigitChars[Decimal(n)[k] + 1]]

InitQuantize ==
    /\ NoExtraction
    /\ bp_pc = "start"
    /\ bp_feature_id = FreshTables
    /\ bp_maxid = 0
    /\ fdin = <<>>
    /\ NoWeightsFile
    /\ call \in [v : (0 - 1)..MaxQuantized]
    /\ ret = <<>>

\* quantize(v) is called
Quantize ==
    /\ "v" \in DOMAIN call
    /\ "quantize" \notin DOMAIN ret
    /\ ret' = ("quantize" :> quantize(call.v)) @@ ret
    /\ UNCHANGED <<main, fdin, fwin, nweights, weights, call>>

\* symbol_quantize(v) is called
SymbolQuantize ==
    /\ "v" \in DOMAIN call
    /\ "symbol_quantize" \notin DOMAIN ret
    /\ ret' = ("symbol_quantize" :> symbol_quantize(call.v)) @@ ret
    /\ UNCHANGED <<main, fdin, fwin, nweights, weights, call>>

NextQuantize ==
    \/ Quantize
    \/ SymbolQuantize

SpecQuantize == InitQuantize /\ [][NextQuantize]_vars

\* ------------------------------------------------- Edges on one node alone
\* static symbol e("_")
endmarker == <<"_">>

\* the part-of-speech categories of the preterminals and the category of the
\* node, as symbols
PosSet == {<<"D", "T">>, <<"N", "N">>}
NP == <<"N", "P">>

\* preterms: the preterminals of a sentence of MaxWords words at most
PretermsSet == UNION {[1..n -> [cat : PosSet]] : n \in 1..MaxWords}

\* the node that node_featurecount is given: label.cat, label.left and
\* label.right of a constituent of the sentence, and whether it is a
\* nonterminal
NodeSet(preterms) ==
    {[cat |-> NP, nonterminal |-> nt, left |-> l, right |-> r] :
        nt \in BOOLEAN, l \in 0..(Len(preterms) - 1), r \in 1..Len(preterms)}

\* Edges(binned_length, nleftprec, nleftsucc, nrightprec, nrightsucc)
EdgesSet ==
    [binned_length : BOOLEAN, nleftprec : 0..MaxWidth, nleftsucc : 0..MaxWidth,
     nrightprec : 0..MaxWidth, nrightsucc : 0..MaxWidth]

\* preterms[k]->label.cat, k counted from 0 as in the code
PretermCat(preterms, k) == preterms[k + 1].cat

\* ++feat_count[f]
Bump(feat_count, f) ==
    (f :> (IF f \in DOMAIN feat_count THEN feat_count[f] + 1 ELSE 1)) @@ feat_count

\* Edges::node_featurecount: nothing for a node that is no nonterminal,
\* otherwise the feature of the node is built and counted
Edges_node_featurecount(fc, preterms, node, feat_count) ==
    IF ~node.nonterminal THEN feat_count
    ELSE LET left == node.left
             right == node.right
             nwords == Len(preterms)
             f == (IF fc.binned_length
                   THEN <<symbol_quantize(right - left).value>> ELSE <<>>)
                  \o <<node.cat>>
                  \o [i \in 1..fc.nleftprec |->
                         IF i <= left THEN PretermCat(preterms, left - i)
                         ELSE endmarker]
                  \o [j \in 1..fc.nleftsucc |->
                         IF left + (j - 1) < nwords
                         THEN PretermCat(preterms, left + (j - 1))
                         ELSE endmarker]
                  \o [i \in 1..fc.nrightprec |->
                         IF i <= right THEN PretermCat(preterms, right - i)
                         ELSE endmarker]
                  \o [j \in 1..fc.nrightsucc |->
                         IF right + (j - 1) < nwords
                         THEN PretermCat(preterms, right + (j - 1))
                         ELSE endmarker]
         IN  Bump(feat_count, f)

InitEdges ==
    /\ NoExtraction
    /\ bp_pc = "start"
    /\ bp_feature_id = FreshTables
    /\ bp_maxid = 0
    /\ fdin = <<>>
    /\ NoWeightsFile
    /\ \E preterms \in PretermsSet :
          call \in {c \in [fc : EdgesSet, preterms : {preterms}, node : NodeSet(preterms)] :
                        c.node.left < c.node.right}
    /\ ret = <<>>

\* fc.node_featurecount(fc, preterms, tp, feat_count) on an empty feat_count
EdgesNodeFeaturecount ==
    /\ "node" \in DOMAIN call
    /\ "feat_count" \notin DOMAIN ret
    /\ ret' = [feat_count |->
                  Edges_node_featurecount(call.fc, call.preterms, call.node, EmptyMap)]
    /\ UNCHANGED <<main, fdin, fwin, nweights, weights, call>>

NextEdges ==
    \/ EdgesNodeFeaturecount

SpecEdges == InitEdges /\ [][NextEdges]_vars

\* ------------------------------------------------ RightBranch on one tree
\* A binary tree with one preterminal child under every nonterminal: punct
\* says, for each preterminal from the top down, whether it is punctuation,
\* and dirs, for each nonterminal from the root down, whether the subtree goes
\* on to the right ("R") or to the left ("L") of its preterminal.  The depth is
\* the number of nodes from the root down to the last preterminal.
TreeSet ==
    UNION {[dirs : [1..(d - 1) -> {"L", "R"}], punct : [1..d -> BOOLEAN]] :
              d \in 1..MaxDepth}

Depth(tree) == Len(tree.punct)

\* the nodes: the nonterminals are 1 .. depth-1 from the root down, the
\* preterminals follow them; 0 is the null pointer
Preterm(tree, i) == (Depth(tree) - 1) + i
Below(tree, i) == IF i = Depth(tree) - 1 THEN Preterm(tree, Depth(tree)) ELSE i + 1
Root == 1

\* tp->is_nonterminal()
is_nonterminal(tree, tp) == tp < Depth(tree)

\* tp->is_punctuation()
is_punctuation(tree, tp) ==
    ~is_nonterminal(tree, tp) /\ tree.punct[tp - (Depth(tree) - 1)]

\* tp->child: the first child
child(tree, tp) ==
    IF ~is_nonterminal(tree, tp) THEN 0
    ELSE IF tree.dirs[tp] = "R" THEN Preterm(tree, tp) ELSE Below(tree, tp)

\* tp->next: the sibling to the right
next(tree, tp) ==
    IF \E i \in 1..(Depth(tree) - 1) : tp = child(tree, i)
    THEN LET i == CHOOSE j \in 1..(Depth(tree) - 1) : tp = child(tree, j)
         IN  IF tree.dirs[i] = "R" THEN Below(tree, i) ELSE Preterm(tree, i)
    ELSE 0

\* rightbranch_count handing rightmost on to the left sibling unchanged
RECURSIVE rightbranch_count_KeepRightmost(_, _, _, _)
rightbranch_count_KeepRightmost(tree, tp, rightmost, fc) ==
    LET sib == IF next(tree, tp) # 0
               THEN rightbranch_count_KeepRightmost(tree, next(tree, tp), rightmost, fc)
               ELSE [rightmost |-> rightmost, fc |-> fc]
    IN  IF is_punctuation(tree, tp) THEN sib
        ELSE LET counted == Bump(sib.fc, sib.rightmost)
             IN  [rightmost |-> sib.rightmost,
                  fc |-> IF is_nonterminal(tree, tp)
                         THEN rightbranch_count_KeepRightmost(tree, child(tree, tp),
                                                              sib.rightmost, counted).fc
                         ELSE counted]

\* RightBranch::rightbranch_count(tp, rightmost, fc): the value returned and
\* fc as the call leaves it
RECURSIVE rightbranch_count_tp(_, _, _, _)
rightbranch_count_tp(tree, tp, rightmost, fc) ==
    LET sib == IF next(tree, tp) # 0
               THEN rightbranch_count_tp(tree, next(tree, tp), rightmost, fc)
               ELSE [rightmost |-> rightmost, fc |-> fc]
    IN  IF is_punctuation(tree, tp) THEN sib
        ELSE LET counted == Bump(sib.fc, sib.rightmost)
             IN  [rightmost |-> 0,
                  fc |-> IF is_nonterminal(tree, tp)
                         THEN rightbranch_count_tp(tree, child(tree, tp),
                                                   sib.rightmost, counted).fc
                         ELSE counted]

InitRightBranch ==
    /\ NoExtraction
    /\ bp_pc = "start"
    /\ bp_feature_id = FreshTables
    /\ bp_maxid = 0
    /\ fdin = <<>>
    /\ NoWeightsFile
    /\ call \in TreeSet
    /\ ret = <<>>

\* RightBranch::tree_featurecount: rightbranch_count(tp, 1, feat_count)
TreeFeaturecount ==
    /\ "dirs" \in DOMAIN call
    /\ "feat_count" \notin DOMAIN ret
    /\ ret' = [feat_count |-> rightbranch_count_tp(call, Root, 1, EmptyMap).fc]
    /\ UNCHANGED <<main, fdin, fwin, nweights, weights, call>>

NextRightBranch ==
    \/ TreeFeaturecount

SpecRightBranch == InitRightBranch /\ [][NextRightBranch]_vars

\* every subtree of the tree is the right child, and nothing is punctuation
StrictlyRightBranching(tree) ==
    /\ \A i \in DOMAIN tree.dirs : tree.dirs[i] = "R"
    /\ \A i \in DOMAIN tree.punct : ~tree.punct[i]

\* feat_count[f], 0 when the map has no entry
CountOf(feat_count, f) == IF f \in DOMAIN feat_count THEN feat_count[f] ELSE 0

\* ------------------------------------------------ the named feature sets
\* C++ false and true, as the integers they convert to
false == 0
true == 1

\* the conversion of an argument to a bool parameter
AsBool(x) == IF x = 0 THEN false ELSE true

\* lexical_cast<std::string> of a number, a bool or an enumerator
lexical_cast(x) == Numeral(x)

\* RuleFeatureClass::annotation_level { none, pos, lexical }
annotation_level_none == 0
annotation_level_pos == 1
annotation_level_lexical == 2

\* RuleFeatureClass::annotation_type { semantic, syntactic }
annotation_type_semantic == 0
annotation_type_syntactic == 1

\* WProj::annotation_type { semantic, syntactic }
WProj_semantic == 0
WProj_syntactic == 1

\* head_type_type { syntactic, semantic } of RBContext, Heads and WSHeads
head_type_type_syntactic == 0
head_type_type_semantic == 1

\* WSHeads::info_type { pos, closedclass, lexical }
info_type_pos == 0
info_type_closedclass == 1
info_type_lexical == 2

\* NGramTree::lexicalize_type { none, closed_class, functional, all }
lexicalize_type_none == 0
lexicalize_type_closed_class == 1
lexicalize_type_functional == 2
lexicalize_type_all == 3

\* HeadTree::head_type { syntactic, semantic }
head_type_syntactic == 0
head_type_semantic == 1

\* a feature class, as far as its identifier() goes; a string is the
\* sequence of its characters
FeatureClass(identifier_string) == [identifier_string |-> identifier_string]

colon == <<":">>

NLogP == FeatureClass(<<"N", "L", "o", "g", "P">>)

RightBranch == FeatureClass(<<"R", "i", "g", "h", "t", "B", "r", "a", "n", "c", "h">>)

Heavy == FeatureClass(<<"H", "e", "a", "v", "y">>)

CoLenPar == FeatureClass(<<"C", "o", "L", "e", "n", "P", "a", "r">>)

\* std::max on annotation levels
max(a, b) == IF a < b THEN b ELSE a

\* the members the constructor initialises, and the identifier it composes
RuleFeatureClass(identifier_stem, nanccats, label_root, label_conjunct, head, functional, all, type) ==
    [nanccats |-> nanccats, label_root |-> label_root,
     label_conjunct |-> label_conjunct, head |-> head,
     functional |-> functional, all |-> all, type |-> type,
     max_annotation_level |-> max(head, max(functional, all)),
     identifier_string |->
         identifier_stem \o colon
         \o lexical_cast(nanccats) \o colon
         \o lexical_cast(label_root) \o colon
         \o lexical_cast(label_conjunct) \o colon
         \o lexical_cast(head) \o colon
         \o lexical_cast(functional) \o colon
         \o lexical_cast(all) \o colon
         \o lexical_cast(type)]

\* Rule with a stem that leaves nanctrees out
Rule_KeepStem(nanctrees, nanccats, label_root, label_conjunct, head, functional, all, type) ==
    [nanctrees |-> nanctrees]
    @@ RuleFeatureClass(<<"R", "u", "l", "e", ":">>,
                        nanccats, AsBool(label_root), AsBool(label_conjunct),
                        head, functional, all, type)

Rule(nanctrees, nanccats, label_root, label_conjunct, head, functional, all, type) ==
    [nanctrees |-> nanctrees]
    @@ RuleFeatureClass(<<"R", "u", "l", "e", ":">> \o lexical_cast(nanctrees),
                        nanccats, AsBool(label_root), AsBool(label_conjunct),
                        head, functional, all, type)

NGram(fraglen, nanccats, label_root, label_conjunct, head, functional, all, type) ==
    [fraglen |-> fraglen]
    @@ RuleFeatureClass(<<"N", "G", "r", "a", "m", ":">> \o lexical_cast(fraglen),
                        nanccats, AsBool(label_root), AsBool(label_conjunct),
                        head, functional, all, type)

NNGram(fraglen, nanccats, label_root, label_conjunct, head, functional, all, type, headdir, headdist) ==
    [fraglen |-> fraglen, headdir |-> AsBool(headdir), headdist |-> AsBool(headdist)]
    @@ RuleFeatureClass(<<"N", "N", "G", "r", "a", "m", ":">> \o lexical_cast(fraglen)
                            \o colon \o lexical_cast(AsBool(headdir))
                            \o colon \o lexical_cast(AsBool(headdist)),
                        nanccats, AsBool(label_root), AsBool(label_conjunct),
                        head, functional, all, type)

Word(nanccats) ==
    FeatureClass(<<"W", "o", "r", "d", ":">>
                 \o lexical_cast(nanccats))

WProj(type, include_nonmaximal, nancs) ==
    FeatureClass(<<"W", "P", "r", "o", "j", ":">>
                 \o lexical_cast(type) \o colon
                 \o lexical_cast(AsBool(include_nonmaximal)) \o colon
                 \o lexical_cast(nancs))

RBContext(label_coordination, label_parent, label_governor, head_type) ==
    FeatureClass(<<"R", "B", "C", "o", "n", "t", "e", "x", "t", ":">>
                 \o lexical_cast(AsBool(label_coordination)) \o colon
                 \o lexical_cast(AsBool(label_parent)) \o colon
                 \o lexical_cast(AsBool(label_governor)) \o colon
                 \o lexical_cast(head_type))

Heads(nheads, governorlex, dependentlex, head_type) ==
    FeatureClass(<<"H", "e", "a", "d", "s", ":">>
                 \o lexical_cast(nheads) \o colon
                 \o lexical_cast(AsBool(governorlex)) \o colon
                 \o lexical_cast(AsBool(dependentlex)) \o colon
                 \o lexical_cast(head_type))

WSHeads(nsuffixletters, distribute, nheads, governorinfo, dependentinfo, head_type) ==
    FeatureClass(<<"W", "S", "H", "e", "a", "d", "s", ":">>
                 \o lexical_cast(nsuffixletters) \o colon
                 \o lexical_cast(AsBool(distribute)) \o colon
                 \o lexical_cast(nheads) \o colon
                 \o lexical_cast(governorinfo) \o colon
                 \o lexical_cast(dependentinfo) \o colon
                 \o lexical_cast(head_type))

Neighbours(nleft, nright) ==
    FeatureClass(<<"N", "e", "i", "g", "h", "b", "o", "u", "r", "s", ":">>
                 \o lexical_cast(nleft) \o colon
                 \o lexical_cast(nright))

\* WSEdges::E, what to collect on one side of a constituent boundary
E(punct, pos, closed, word, nsuffix) ==
    [punct |-> punct, pos |-> pos, closed |-> closed, word |-> word,
     nsuffix |-> nsuffix]

\* WSEdges::E::identifier()
E_identifier(e) ==
    lexical_cast(e.punct) \o colon \o lexical_cast(e.pos) \o colon
    \o lexical_cast(e.closed) \o colon \o lexical_cast(e.word) \o colon
    \o lexical_cast(e.nsuffix)

WSEdges(leftleft, leftright, rightleft, rightright, binned_length) ==
    FeatureClass(<<"W", "S", "E", "d", "g", "e", "s", ":">>
                 \o lexical_cast(AsBool(binned_length)) \o colon
                 \o <<"l", "l">> \o E_identifier(leftleft) \o colon
                 \o <<"l", "r">> \o E_identifier(leftright) \o colon
                 \o <<"r", "l">> \o E_identifier(rightleft) \o colon
                 \o <<"r", "r">> \o E_identifier(rightright))

WEdges(binned_length, nleftprec, nleftprecw, nleftsucc, nleftsuccw, nrightprec, nrightprecw, nrightsucc, nrightsuccw) ==
    FeatureClass(<<"W", "E", "d", "g", "e", "s", ":">>
                 \o lexical_cast(AsBool(binned_length)) \o colon
                 \o lexical_cast(nleftprec) \o colon
                 \o lexical_cast(nleftprecw) \o colon
                 \o lexical_cast(nleftsucc) \o colon
                 \o lexical_cast(nleftsuccw) \o colon
                 \o lexical_cast(nrightprec) \o colon
                 \o lexical_cast(nrightprecw) \o colon
                 \o lexical_cast(nrightsucc) \o colon
                 \o lexical_cast(nrightsuccw))

Edges(binned_length, nleftprec, nleftsucc, nrightprec, nrightsucc) ==
    FeatureClass(<<"E", "d", "g", "e", "s", ":">>
                 \o lexical_cast(AsBool(binned_length)) \o colon
                 \o lexical_cast(nleftprec) \o colon
                 \o lexical_cast(nleftsucc) \o colon
                 \o lexical_cast(nrightprec) \o colon
                 \o lexical_cast(nrightsucc))

WordEdges(binned_length, nleftprec, nleftsucc, nrightprec, nrightsucc) ==
    FeatureClass(<<"W", "o", "r", "d", "E", "d", "g", "e", "s", ":">>
                 \o lexical_cast(AsBool(binned_length)) \o colon
                 \o lexical_cast(nleftprec) \o colon
                 \o lexical_cast(nleftsucc) \o colon
                 \o lexical_cast(nrightprec) \o colon
                 \o lexical_cast(nrightsucc))

NGramTree(ngram, lexicalize, collapse, nancs) ==
    FeatureClass(<<"N", "G", "r", "a", "m", "T", "r", "e", "e", ":">>
                 \o lexical_cast(ngram) \o colon
                 \o lexical_cast(lexicalize) \o colon
                 \o lexical_cast(AsBool(collapse)) \o colon
                 \o lexical_cast(nancs))

HeadTree(collapse, lexicalize, nancs, htype) ==
    FeatureClass(<<"H", "e", "a", "d", "T", "r", "e", "e", ":">>
                 \o lexical_cast(AsBool(collapse)) \o colon
                 \o lexical_cast(AsBool(lexicalize)) \o colon
                 \o lexical_cast(nancs) \o colon
                 \o lexical_cast(htype))

CoPar(ignore_preterms) ==
    FeatureClass(<<"C", "o", "P", "a", "r", ":">>
                 \o lexical_cast(AsBool(ignore_preterms)))

\* the E values the feature sets name
empty == E(0, 0, 0, 0, 0)
punct1 == E(1, 0, 0, 0, 0)
pos1 == E(1, 1, 0, 0, 0)
closed1 == E(1, 1, 1, 0, 0)
word1 == E(1, 1, 1, 1, 0)
punct2 == E(2, 0, 0, 0, 0)
pos2 == E(2, 1, 0, 0, 0)
closed2 == E(2, 1, 1, 0, 0)
word2 == E(2, 1, 1, 1, 0)

\* the templates pushed by a sequence of statements, in order
RECURSIVE Pushed(_)
Pushed(blocks) ==
    IF blocks = <<>> THEN <<>> ELSE Head(blocks) \o Pushed(Tail(blocks))

\* for (i = lo; i <= hi; ++i) Body(i)
ForLoop(lo, hi, Body(_)) == Pushed([k \in 1..(hi + 1 - lo) |-> Body(lo + k - 1)])

\* the loops over binflag and the four widths around a constituent, with
\* their test of the sum of the widths
ForWidths(maxwidth, maxsumwidth, Body(_, _, _, _, _)) ==
    ForLoop(0, 1, LAMBDA binflag :
      ForLoop(0, maxwidth, LAMBDA nleftprec :
        ForLoop(0, maxwidth, LAMBDA nleftsucc :
          ForLoop(0, maxwidth, LAMBDA nrightprec :
            ForLoop(0, maxwidth, LAMBDA nrightsucc :
              IF nleftprec + nleftsucc + nrightprec + nrightsucc <= maxsumwidth
              THEN Body(binflag, nleftprec, nleftsucc, nrightprec, nrightsucc)
              ELSE <<>>)))))

features_connll ==
    <<NLogP,
      Rule(0, 0, false, false, annotation_level_none, annotation_level_none, annotation_level_none, annotation_type_syntactic),
      Rule(0, 1, false, false, annotation_level_none, annotation_level_none, annotation_level_none, annotation_type_syntactic),
      Rule(0, 0, true, false, annotation_level_none, annotation_level_none, annotation_level_none, annotation_type_syntactic),
      Rule(0, 0, false, true, annotation_level_none, annotation_level_none, annotation_level_none, annotation_type_syntactic),
      Rule(0, 0, false, false, annotation_level_lexical, annotation_level_none, annotation_level_none, annotation_type_syntactic),
      Rule(0, 0, false, false, annotation_level_none, annotation_level_lexical, annotation_level_none, annotation_type_syntactic),
      Rule(0, 0, false, false, annotation_level_lexical, annotation_level_lexical, annotation_level_none, annotation_type_syntactic),
      Rule(1, 0, false, false, annotation_level_none, annotation_level_none, annotation_level_none, annotation_type_syntactic),
      Rule(1, 1, false, false, annotation_level_none, annotation_level_none, annotation_level_none, annotation_type_syntactic),
      NGram(1, 1, false, true, annotation_level_none, annotation_level_none, annotation_level_none, annotation_type_syntactic),
      NGram(2, 1, true, true, annotation_level_none, annotation_level_none, annotation_level_none, annotation_type_syntactic),
      NGram(3, 1, true, true, annotation_level_none, annotation_level_none, annotation_level_none, annotation_type_syntactic),
      NGram(2, 1, false, false, annotation_level_lexical, annotation_level_none, annotation_level_none, annotation_type_syntactic),
      NGram(2, 1, false, false, annotation_level_none, annotation_level_lexical, annotation_level_none, annotation_type_syntactic),
      Word(1),
      Word(2),
      WProj(WProj_semantic, false, 1),
      RightBranch,
      Heavy,
      NGramTree(2, lexicalize_type_none, true, 0),
      NGramTree(2, lexicalize_type_all, true, 0),
      NGramTree(3, lexicalize_type_functional, true, 0),
      HeadTree(true, false, 0, head_type_syntactic),
      HeadTree(true, false, 0, head_type_semantic),
      HeadTree(true, true, 0, head_type_semantic),
      Heads(2, false, false, head_type_type_syntactic),
      Heads(2, true, true, head_type_type_syntactic),
      Heads(2, true, true, head_type_type_semantic),
      Heads(3, false, false, head_type_type_syntactic),
      Neighbours(0, 0),
      Neighbours(0, 1),
      Neighbours(1, 0),
      CoPar(false),
      CoLenPar>>

features_splh(local, nngram) ==
    Pushed(<<
      <<NLogP,
        RightBranch,
        Heavy,
        RBContext(false, false, false, head_type_type_syntactic),
        RBContext(false, true, false, head_type_type_syntactic),
        RBContext(false, true, true, head_type_type_syntactic),
        RBContext(true, false, false, head_type_type_syntactic),
        RBContext(true, true, false, head_type_type_syntactic),
        RBContext(true, true, true, head_type_type_syntactic),
        Rule(false, false, false, head_type_type_syntactic, annotation_level_none, annotation_level_none, annotation_level_none, annotation_type_syntactic),
        Rule(true, false, false, head_type_type_syntactic, annotation_level_none, annotation_level_none, annotation_level_none, annotation_type_syntactic),
        Rule(true, true, true, head_type_type_syntactic, annotation_level_none, annotation_level_none, annotation_level_none, annotation_type_syntactic),
        Rule(0, 1, false, false, annotation_level_none, annotation_level_none, annotation_level_none, annotation_type_syntactic),
        Rule(0, 0, true, false, annotation_level_none, annotation_level_none, annotation_level_none, annotation_type_syntactic),
        Rule(0, 0, false, true, annotation_level_none, annotation_level_none, annotation_level_none, annotation_type_syntactic),
        Rule(0, 0, false, false, annotation_level_lexical, annotation_level_none, annotation_level_none, annotation_type_syntactic),
        Rule(0, 0, false, false, annotation_level_none, annotation_level_lexical, annotation_level_none, annotation_type_syntactic),
        Rule(0, 0, false, false, annotation_level_lexical, annotation_level_lexical, annotation_level_none, annotation_type_syntactic),
        NGram(1, 1, false, true, annotation_level_none, annotation_level_none, annotation_level_none, annotation_type_syntactic),
        NGram(2, 1, true, true, annotation_level_none, annotation_level_none, annotation_level_none, annotation_type_syntactic),
        NGram(3, 1, true, true, annotation_level_none, annotation_level_none, annotation_level_none, annotation_type_syntactic),
        NGram(2, 1, false, false, annotation_level_lexical, annotation_level_none, annotation_level_none, annotation_type_syntactic),
        NGram(2, 1, false, false, annotation_level_none, annotation_level_lexical, annotation_level_none, annotation_type_syntactic)>>,
      IF nngram # false
      THEN <<NNGram(1, 1, false, true, annotation_level_none, annotation_level_none, annotation_level_none, annotation_type_syntactic, true, true),
             NNGram(2, 1, true, true, annotation_level_none, annotation_level_none, annotation_level_none, annotation_type_syntactic, true, true),
             NNGram(3, 1, true, true, annotation_level_none, annotation_level_none, annotation_level_none, annotation_type_syntactic, true, true),
             NNGram(2, 1, false, false, annotation_level_lexical, annotation_level_none, annotation_level_none, annotation_type_syntactic, true, true),
             NNGram(2, 1, false, false, annotation_level_lexical, annotation_level_lexical, annotation_level_none, annotation_type_syntactic, true, true)>>
      ELSE <<>>,
      <<Word(1),
        Word(2),
        WProj(WProj_semantic, false, 1),
        HeadTree(true, false, 0, head_type_syntactic),
        HeadTree(true, false, 0, head_type_semantic),
        HeadTree(true, true, 0, head_type_semantic),
        Heads(2, false, false, head_type_type_syntactic),
        Heads(2, true, true, head_type_type_syntactic),
        Heads(2, true, true, head_type_type_semantic),
        Heads(3, false, false, head_type_type_syntactic)>>,
      ForWidths(2, 3, LAMBDA binflag, nleftprec, nleftsucc, nrightprec, nrightsucc :
        <<Edges(binflag, nleftprec, nleftsucc, nrightprec, nrightsucc)>>),
      ForWidths(2, 3, LAMBDA binflag, nleftprec, nleftsucc, nrightprec, nrightsucc :
        <<WordEdges(binflag, nleftprec, nleftsucc, nrightprec, nrightsucc)>>),
      IF local = false
      THEN <<NGramTree(2, lexicalize_type_none, true, 0),
             NGramTree(2, lexicalize_type_all, true, 0),
             NGramTree(3, lexicalize_type_functional, true, 0),
             CoPar(false),
             CoLenPar>>
      ELSE <<>> >>)

features_splhsuffix(nsuffix, local) ==
    Pushed(<<
      <<NLogP,
        RightBranch,
        Heavy,
        RBContext(false, false, false, head_type_type_syntactic),
        RBContext(false, true, false, head_type_type_syntactic),
        RBContext(false, true, true, head_type_type_syntactic),
        RBContext(true, false, false, head_type_type_syntactic),
        RBContext(true, true, false, head_type_type_syntactic),
        RBContext(true, true, true, head_type_type_syntactic),
        Rule(false, false, false, head_type_type_syntactic, annotation_level_none, annotation_level_none, annotation_level_none, annotation_type_syntactic),
        Rule(true, false, false, head_type_type_syntactic, annotation_level_none, annotation_level_none, annotation_level_none, annotation_type_syntactic),
        Rule(true, true, true, head_type_type_syntactic, annotation_level_none, annotation_level_none, annotation_level_none, annotation_type_syntactic),
        Rule(0, 1, false, false, annotation_level_none, annotation_level_none, annotation_level_none, annotation_type_syntactic),
        Rule(0, 0, true, false, annotation_level_none, annotation_level_none, annotation_level_none, annotation_type_syntactic),
        Rule(0, 0, false, true, annotation_level_none, annotation_level_none, annotation_level_none, annotation_type_syntactic),
        Rule(0, 0, false, false, annotation_level_lexical, annotation_level_none, annotation_level_none, annotation_type_syntactic),
        Rule(0, 0, false, false, annotation_level_none, annotation_level_lexical, annotation_level_none, annotation_type_syntactic),
        Rule(0, 0, false, false, annotation_level_lexical, annotation_level_lexical, annotation_level_none, annotation_type_syntactic),
        NGram(1, 1, false, true, annotation_level_none, annotation_level_none, annotation_level_none, annotation_type_syntactic),
        NGram(2, 1, true, true, annotation_level_none, annotation_level_none, annotation_level_none, annotation_type_syntactic),
        NGram(3, 1, true, true, annotation_level_none, annotation_level_none, annotation_level_none, annotation_type_syntactic),
        NGram(2, 1, false, false, annotation_level_lexical, annotation_level_none, annotation_level_none, annotation_type_syntactic),
        NGram(2, 1, false, false, annotation_level_none, annotation_level_lexical, annotation_level_none, annotation_type_syntactic),
        Word(1),
        Word(2),
        WProj(WProj_semantic, false, 1),
        HeadTree(true, false, 0, head_type_syntactic),
        HeadTree(true, false, 0, head_type_semantic),
        HeadTree(true, true, 0, head_type_semantic),
        WSHeads(0, true, 2, info_type_pos, info_type_pos, head_type_type_syntactic),
        WSHeads(0, true, 2, info_type_lexical, info_type_lexical, head_type_type_syntactic),
        WSHeads(0, true, 2, info_type_lexical, info_type_lexical, head_type_type_semantic),
        WSHeads(0, true, 3, info_type_pos, info_type_pos, head_type_type_syntactic)>>,
      IF nsuffix > 0
      THEN <<WSHeads(nsuffix, true, 2, info_type_lexical, info_type_lexical, head_type_type_syntactic)>>
      ELSE <<>>,
      ForWidths(2, 3, LAMBDA binflag, nleftprec, nleftsucc, nrightprec, nrightsucc :
        Pushed(<<
          <<WSEdges(E(0, nleftprec, 0, 0, 0), E(0, nleftsucc, 0, 0, 0), E(0, nrightprec, 0, 0, 0), E(0, nrightsucc, 0, 0, 0), binflag)>>,
          IF nleftprec + nleftsucc + nrightprec + nrightsucc > 0
          THEN <<WSEdges(E(0, nleftprec, 0, nleftprec, 0), E(0, nleftsucc, 0, nleftsucc, 0), E(0, nrightprec, 0, nrightprec, 0), E(0, nrightsucc, 0, nrightsucc, 0), binflag)>>
          ELSE <<>>,
          IF nleftprec + nleftsucc + nrightprec + nrightsucc > 0 /\ nsuffix > 0
          THEN <<WSEdges(E(0, nleftprec, 0, nleftprec, nsuffix), E(0, nleftsucc, 0, nleftsucc, nsuffix), E(0, nrightprec, 0, nrightprec, nsuffix), E(0, nrightsucc, 0, nrightsucc, nsuffix), binflag)>>
          ELSE <<>> >>)),
      IF local = false
      THEN <<NGramTree(2, lexicalize_type_none, true, 0),
             NGramTree(2, lexicalize_type_all, true, 0),
             NGramTree(3, lexicalize_type_functional, true, 0),
             CoPar(false),
             CoLenPar>>
      ELSE <<>> >>)

features_wedges ==
    Pushed(<<
      <<NLogP,
        RightBranch,
        Heavy>>,
      ForWidths(1, 2, LAMBDA binflag, nleftprec, nleftsucc, nrightprec, nrightsucc :
        ForLoop(0, nleftprec, LAMBDA nleftprecw :
          ForLoop(0, nleftsucc, LAMBDA nleftsuccw :
            ForLoop(0, nrightprec, LAMBDA nrightprecw :
              ForLoop(0, nrightsucc, LAMBDA nrightsuccw :
                <<WEdges(binflag, nleftprec, nleftprecw, nleftsucc, nleftsuccw, nrightprec, nrightprecw, nrightsucc, nrightsuccw)>>))))) >>)

\* the E values wsfeatures() looks around each constituent boundary with
es == <<punct1, pos1, closed1, word1, E(2, 0, 0, 0, 0), E(2, 1, 0, 0, 0),
       E(2, 1, 1, 0, 0)>>

wsfeatures(headfeatures, edgefeatures, ngram, ngramtree, rbcontext) ==
    Pushed(<<
      <<NLogP,
        RightBranch,
        Heavy>>,
      IF headfeatures # false
      THEN <<WSHeads(0, true, 2, info_type_pos, info_type_pos, head_type_type_syntactic),
             WSHeads(0, true, 2, info_type_pos, info_type_closedclass, head_type_type_syntactic),
             WSHeads(0, true, 2, info_type_closedclass, info_type_pos, head_type_type_syntactic),
             WSHeads(0, true, 2, info_type_closedclass, info_type_closedclass, head_type_type_syntactic),
             WSHeads(0, true, 2, info_type_lexical, info_type_closedclass, head_type_type_syntactic),
             WSHeads(0, true, 2, info_type_closedclass, info_type_lexical, head_type_type_syntactic),
             WSHeads(0, true, 2, info_type_lexical, info_type_lexical, head_type_type_syntactic),
             WSHeads(0, true, 2, info_type_lexical, info_type_lexical, head_type_type_semantic),
             WSHeads(0, true, 3, info_type_pos, info_type_pos, head_type_type_syntactic),
             WSHeads(0, true, 3, info_type_pos, info_type_pos, head_type_type_semantic),
             WSHeads(0, true, 3, info_type_pos, info_type_closedclass, head_type_type_syntactic),
             WSHeads(0, true, 3, info_type_closedclass, info_type_pos, head_type_type_syntactic),
             WSHeads(0, true, 3, info_type_closedclass, info_type_closedclass, head_type_type_syntactic)>>
      ELSE <<>>,
      IF edgefeatures # 0
      THEN ForLoop(0, 1, LAMBDA binflag :
             IF (binflag = 1 /\ edgefeatures = 1) \/ (binflag = 0 /\ edgefeatures = 2)
             THEN <<>>
             ELSE Pushed(<<
               <<WSEdges(empty, empty, empty, empty, binflag),
                 WSEdges(E(2, 0, 0, 0, 0), empty, empty, E(2, 0, 0, 0, 0), binflag)>>,
               Pushed([k \in DOMAIN es |->
                 LET it == es[k]
                 IN  <<WSEdges(it, empty, empty, empty, binflag),
                       WSEdges(empty, it, empty, empty, binflag),
                       WSEdges(empty, empty, it, empty, binflag),
                       WSEdges(empty, empty, empty, it, binflag),
                       WSEdges(it, empty, empty, punct1, binflag),
                       WSEdges(empty, it, empty, punct1, binflag),
                       WSEdges(empty, empty, it, punct1, binflag),
                       WSEdges(it, empty, empty, pos1, binflag),
                       WSEdges(empty, it, empty, pos1, binflag),
                       WSEdges(empty, empty, it, pos1, binflag),
                       WSEdges(it, empty, empty, closed1, binflag),
                       WSEdges(empty, it, empty, closed1, binflag),
                       WSEdges(empty, empty, it, closed1, binflag)>>]) >>))
      ELSE <<>>,
      IF ngram # false
      THEN <<NGram(1, 1, false, false, annotation_level_none, annotation_level_none, annotation_level_none, annotation_type_syntactic),
             NGram(1, 1, false, true, annotation_level_none, annotation_level_none, annotation_level_none, annotation_type_syntactic),
             NGram(1, 1, true, false, annotation_level_none, annotation_level_none, annotation_level_none, annotation_type_syntactic),
             NGram(1, 1, true, true, annotation_level_none, annotation_level_none, annotation_level_none, annotation_type_syntactic),
             NGram(2, 1, true, true, annotation_level_none, annotation_level_none, annotation_level_none, annotation_type_syntactic),
             NGram(3, 1, true, true, annotation_level_none, annotation_level_none, annotation_level_none, annotation_type_syntactic),
             NGram(1, 1, false, false, annotation_level_lexical, annotation_level_none, annotation_level_none, annotation_type_syntactic),
             NGram(1, 1, false, false, annotation_level_none, annotation_level_lexical, annotation_level_none, annotation_type_syntactic),
             NGram(1, 1, false, false, annotation_level_lexical, annotation_level_lexical, annotation_level_none, annotation_type_syntactic),
             NGram(2, 1, false, false, annotation_level_lexical, annotation_level_none, annotation_level_none, annotation_type_syntactic),
             NGram(2, 1, false, false, annotation_level_none, annotation_level_lexical, annotation_level_none, annotation_type_syntactic),
             NGram(1, 1, true, false, annotation_level_lexical, annotation_level_none, annotation_level_none, annotation_type_syntactic),
             NGram(1, 1, true, false, annotation_level_none, annotation_level_lexical, annotation_level_none, annotation_type_syntactic),
             NGram(1, 1, true, false, annotation_level_lexical, annotation_level_lexical, annotation_level_none, annotation_type_syntactic),
             NGram(2, 1, true, false, annotation_level_lexical, annotation_level_none, annotation_level_none, annotation_type_syntactic),
             NGram(2, 1, true, false, annotation_level_none, annotation_level_lexical, annotation_level_none, annotation_type_syntactic),
             NGram(1, 1, false, true, annotation_level_lexical, annotation_level_none, annotation_level_none, annotation_type_syntactic),
             NGram(1, 1, false, true, annotation_level_none, annotation_level_lexical, annotation_level_none, annotation_type_syntactic),
             NGram(1, 1, false, true, annotation_level_lexical, annotation_level_lexical, annotation_level_none, annotation_type_syntactic),
             NGram(2, 1, false, true, annotation_level_lexical, annotation_level_none, annotation_level_none, annotation_type_syntactic),
             NGram(2, 1, false, true, annotation_level_none, annotation_level_lexical, annotation_level_none, annotation_type_syntactic)>>
      ELSE <<>>,
      IF ngramtree # false
      THEN <<NGramTree(2, lexicalize_type_none, true, 0),
             NGramTree(2, lexicalize_type_functional, true, 0),
             NGramTree(2, lexicalize_type_all, true, 0),
             NGramTree(3, lexicalize_type_none, true, 0),
             NGramTree(3, lexicalize_type_functional, true, 0),
             NGramTree(3, lexicalize_type_all, true, 0),
             NGramTree(4, lexicalize_type_none, true, 0),
             NGramTree(4, lexicalize_type_functional, true, 0)>>
      ELSE <<>>,
      IF rbcontext # false
      THEN <<RBContext(false, false, false, head_type_type_syntactic),
             RBContext(false, false, true, head_type_type_syntactic),
             RBContext(false, true, false, head_type_type_syntactic),
             RBContext(false, true, true, head_type_type_syntactic),
             RBContext(true, false, false, head_type_type_syntactic),
             RBContext(true, false, true, head_type_type_syntactic),
             RBContext(true, true, false, head_type_type_syntactic),
             RBContext(true, true, true, head_type_type_syntactic)>>
      ELSE <<>> >>)

nfeatures ==
    Pushed(<<
      <<NLogP,
        RightBranch,
        Heavy,
        CoPar(false),
        CoPar(true),
        CoLenPar,
        Word(1),
        Word(2),
        WProj(WProj_semantic, false, 1),
        WSHeads(0, true, 2, info_type_pos, info_type_pos, head_type_type_syntactic),
        WSHeads(0, true, 2, info_type_pos, info_type_closedclass, head_type_type_syntactic),
        WSHeads(0, true, 2, info_type_closedclass, info_type_pos, head_type_type_syntactic),
        WSHeads(0, true, 2, info_type_closedclass, info_type_closedclass, head_type_type_syntactic),
        WSHeads(0, true, 2, info_type_lexical, info_type_closedclass, head_type_type_syntactic),
        WSHeads(0, true, 2, info_type_closedclass, info_type_lexical, head_type_type_syntactic),
        WSHeads(0, true, 2, info_type_lexical, info_type_lexical, head_type_type_syntactic),
        WSHeads(0, true, 2, info_type_lexical, info_type_lexical, head_type_type_semantic),
        WSHeads(0, true, 3, info_type_pos, info_type_pos, head_type_type_syntactic),
        WSHeads(0, true, 3, info_type_pos, info_type_pos, head_type_type_semantic),
        WSHeads(0, true, 3, info_type_pos, info_type_closedclass, head_type_type_syntactic),
        WSHeads(0, true, 3, info_type_closedclass, info_type_pos, head_type_type_syntactic),
        WSHeads(0, true, 3, info_type_closedclass, info_type_closedclass, head_type_type_syntactic),
        RBContext(false, false, false, head_type_type_syntactic),
        RBContext(false, true, false, head_type_type_syntactic),
        RBContext(false, true, true, head_type_type_syntactic),
        RBContext(true, false, false, head_type_type_syntactic),
        RBContext(true, true, false, head_type_type_syntactic),
        RBContext(true, true, true, head_type_type_syntactic),
        RBContext(false, false, false, head_type_type_semantic),
        RBContext(true, false, false, head_type_type_semantic),
        RBContext(true, true, true, head_type_type_semantic),
        Rule(0, 1, false, false, annotation_level_none, annotation_level_none, annotation_level_none, annotation_type_syntactic),
        Rule(1, 0, false, false, annotation_level_none, annotation_level_none, annotation_level_none, annotation_type_syntactic),
        Rule(1, 1, false, false, annotation_level_none, annotation_level_none, annotation_level_none, annotation_type_syntactic),
        Rule(0, 2, false, false, annotation_level_none, annotation_level_none, annotation_level_none, annotation_type_syntactic),
        Rule(0, 0, true, false, annotation_level_none, annotation_level_none, annotation_level_none, annotation_type_syntactic),
        Rule(0, 0, false, true, annotation_level_none, annotation_level_none, annotation_level_none, annotation_type_syntactic),
        Rule(0, 0, false, false, annotation_level_lexical, annotation_level_none, annotation_level_none, annotation_type_syntactic),
        Rule(0, 0, false, false, annotation_level_none, annotation_level_lexical, annotation_level_none, annotation_type_syntactic),
        Rule(0, 0, false, false, annotation_level_lexical, annotation_level_lexical, annotation_level_none, annotation_type_syntactic),
        NGram(1, 1, false, true, annotation_level_none, annotation_level_none, annotation_level_none, annotation_type_syntactic),
        NGram(2, 1, false, false, annotation_level_none, annotation_level_none, annotation_level_none, annotation_type_syntactic),
        NGram(2, 1, true, true, annotation_level_none, annotation_level_none, annotation_level_none, annotation_type_syntactic),
        NGram(3, 1, false, false, annotation_level_none, annotation_level_none, annotation_level_none, annotation_type_syntactic),
        NGram(3, 1, true, true, annotation_level_none, annotation_level_none, annotation_level_none, annotation_type_syntactic),
        NGram(4, 1, false, false, annotation_level_none, annotation_level_none, annotation_level_none, annotation_type_syntactic),
        NGram(2, 1, false, false, annotation_level_lexical, annotation_level_none, annotation_level_none, annotation_type_syntactic),
        NGram(2, 1, false, false, annotation_level_none, annotation_level_lexical, annotation_level_none, annotation_type_syntactic),
        NGramTree(2, lexicalize_type_none, true, 0),
        NGramTree(2, lexicalize_type_functional, true, 0),
        NGramTree(2, lexicalize_type_all, true, 0),
        NGramTree(3, lexicalize_type_none, true, 0),
        NGramTree(3, lexicalize_type_functional, true, 0),
        HeadTree(true, false, 0, head_type_syntactic),
        HeadTree(true, false, 0, head_type_semantic),
        HeadTree(true, true, 0, head_type_semantic)>>,
      <<WSEdges(punct1, empty, empty, empty, false),
        WSEdges(pos1, empty, empty, empty, false),
        WSEdges(closed1, empty, empty, empty, false),
        WSEdges(punct1, empty, punct1, punct1, false),
        WSEdges(punct1, empty, punct1, punct1, true),
        WSEdges(closed1, closed1, empty, empty, false),
        WSEdges(closed1, closed1, empty, empty, true),
        WSEdges(closed1, closed1, punct1, punct1, false),
        WSEdges(word1, word1, empty, empty, false),
        WSEdges(empty, punct1, empty, empty, false),
        WSEdges(empty, pos1, empty, empty, false),
        WSEdges(empty, closed1, empty, empty, false),
        WSEdges(empty, word1, empty, empty, false),
        WSEdges(empty, punct2, empty, empty, false),
        WSEdges(empty, pos2, empty, empty, false),
        WSEdges(empty, closed2, empty, empty, false),
        WSEdges(empty, punct1, empty, punct1, false),
        WSEdges(empty, pos1, empty, punct1, false),
        WSEdges(empty, closed1, empty, punct1, false),
        WSEdges(empty, punct1, empty, pos1, false),
        WSEdges(empty, pos1, empty, pos1, false),
        WSEdges(empty, closed1, empty, pos1, false),
        WSEdges(empty, punct1, empty, closed1, false),
        WSEdges(empty, pos1, empty, closed1, false),
        WSEdges(empty, closed1, empty, closed1, false),
        WSEdges(empty, empty, punct1, empty, false),
        WSEdges(empty, empty, pos1, empty, false),
        WSEdges(empty, empty, closed1, empty, false),
        WSEdges(empty, empty, word1, empty, false),
        WSEdges(empty, empty, punct2, empty, false),
        WSEdges(empty, empty, pos2, empty, false),
        WSEdges(empty, empty, closed2, empty, false),
        WSEdges(empty, empty, punct1, punct1, false),
        WSEdges(empty, empty, pos1, punct1, false),
        WSEdges(empty, empty, closed1, punct1, false),
        WSEdges(empty, empty, punct1, pos1, false),
        WSEdges(empty, empty, pos1, pos1, false),
        WSEdges(empty, empty, closed1, pos1, false),
        WSEdges(empty, empty, punct1, closed1, false),
        WSEdges(empty, empty, pos1, closed1, false),
        WSEdges(empty, empty, closed1, closed1, false),
        WSEdges(empty, empty, empty, punct1, false),
        WSEdges(empty, empty, empty, punct1, true),
        WSEdges(empty, empty, empty, punct2, false),
        WSEdges(empty, empty, empty, pos1, false),
        WSEdges(empty, empty, empty, pos1, true),
        WSEdges(empty, empty, empty, pos2, false),
        WSEdges(empty, empty, empty, closed1, false),
        WSEdges(empty, empty, empty, closed1, true),
        WSEdges(empty, empty, empty, closed2, false),
        WSEdges(empty, empty, empty, word1, false),
        WSEdges(empty, empty, empty, word1, true),
        WSEdges(empty, empty, empty, word2, false)>> >>)

sfeatures ==
    Pushed(<<
      <<NLogP,
        RightBranch,
        Heavy,
        CoPar(false),
        RBContext(false, true, false, head_type_type_syntactic),
        RBContext(false, true, true, head_type_type_syntactic),
        RBContext(true, false, false, head_type_type_syntactic),
        RBContext(true, true, false, head_type_type_syntactic),
        RBContext(true, true, true, head_type_type_syntactic),
        Rule(0, 0, true, false, annotation_level_none, annotation_level_none, annotation_level_none, annotation_type_syntactic),
        Rule(0, 0, false, false, annotation_level_lexical, annotation_level_lexical, annotation_level_none, annotation_type_syntactic),
        NGram(2, 1, false, false, annotation_level_none, annotation_level_none, annotation_level_none, annotation_type_syntactic),
        NGram(2, 1, false, false, annotation_level_none, annotation_level_lexical, annotation_level_none, annotation_type_syntactic),
        WProj(WProj_semantic, false, 1),
        NGramTree(2, lexicalize_type_all, true, 0),
        HeadTree(true, false, 0, head_type_syntactic),
        WSHeads(0, true, 2, info_type_lexical, info_type_lexical, head_type_type_semantic),
        WSHeads(0, true, 3, info_type_pos, info_type_pos, head_type_type_semantic),
        WSHeads(0, true, 3, info_type_closedclass, info_type_closedclass, head_type_type_syntactic)>>,
      <<WSEdges(closed1, empty, empty, empty, false),
        WSEdges(punct1, empty, punct1, punct1, false),
        WSEdges(punct1, empty, punct1, punct1, true),
        WSEdges(closed1, closed1, empty, empty, false),
        WSEdges(closed1, closed1, empty, empty, true),
        WSEdges(word1, word1, empty, empty, false),
        WSEdges(empty, closed1, empty, empty, false),
        WSEdges(empty, word1, empty, empty, false),
        WSEdges(empty, punct2, empty, empty, false),
        WSEdges(empty, closed1, empty, punct1, false),
        WSEdges(empty, punct1, empty, closed1, false),
        WSEdges(empty, empty, punct1, empty, false),
        WSEdges(empty, empty, punct2, empty, false),
        WSEdges(empty, empty, punct1, punct1, false),
        WSEdges(empty, empty, punct1, closed1, false),
        WSEdges(empty, empty, pos1, closed1, false),
        WSEdges(empty, empty, empty, punct1, false),
        WSEdges(empty, empty, empty, punct2, false),
        WSEdges(empty, empty, empty, pos1, false),
        WSEdges(empty, empty, empty, pos1, true),
        WSEdges(empty, empty, empty, closed1, false),
        WSEdges(empty, empty, empty, closed2, false)>> >>)
\* the names FeatureClassPtrs(fcname) accepts
fcnames ==
    {"nfeatures", "sfeatures", "wshead", "wsedge", "wsedge0", "wsedge1",
     "wsngram", "wsngramtree", "wsrbcontext", "conll", "splh", "splhnn",
     "splhlocal", "splhsuffix0", "splhsuffix1", "splhsuffix3", "wedges",
     "ws", "wsall"}

\* the constructor's calls: without a name (fcname == NULL), or with a name,
\* one of them a name it does not know
FeatureClassPtrsCalls ==
    {<<"FeatureClassPtrs">>}
    \cup {<<"FeatureClassPtrs", fcname>> : fcname \in fcnames \cup {"features_050902"}}

\* fcname == NULL
IsNull(c) == Len(c) = 1

\* strcmp(fcname, name) == 0
Named(c, name) == Len(c) = 2 /\ c[2] = name

\* the constructor reaches exit(EXIT_FAILURE)
UnknownFcname(c) == ~ IsNull(c) /\ c[2] \notin fcnames

\* the templates FeatureClassPtrs(fcname) pushes, in order
FeatureClassPtrs(c) ==
    IF IsNull(c) \/ Named(c, "nfeatures") THEN nfeatures
    ELSE IF Named(c, "sfeatures") THEN sfeatures
    ELSE IF Named(c, "wshead") THEN wsfeatures(true, false, false, false, false)
    ELSE IF Named(c, "wsedge") THEN wsfeatures(false, 3, false, false, false)
    ELSE IF Named(c, "wsedge0") THEN wsfeatures(false, 1, false, false, false)
    ELSE IF Named(c, "wsedge1") THEN wsfeatures(false, 2, false, false, false)
    ELSE IF Named(c, "wsngram") THEN wsfeatures(false, false, true, false, false)
    ELSE IF Named(c, "wsngramtree") THEN wsfeatures(false, false, false, true, false)
    ELSE IF Named(c, "wsrbcontext") THEN wsfeatures(false, false, false, false, true)
    ELSE IF Named(c, "conll") THEN features_connll
    ELSE IF Named(c, "splh") THEN features_splh(false, false)
    ELSE IF Named(c, "splhnn") THEN features_splh(false, true)
    ELSE IF Named(c, "splhlocal") THEN features_splh(true, false)
    ELSE IF Named(c, "splhsuffix0") THEN features_splhsuffix(0, false)
    ELSE IF Named(c, "splhsuffix1") THEN features_splhsuffix(1, false)
    ELSE IF Named(c, "splhsuffix3") THEN features_splhsuffix(3, false)
    ELSE IF Named(c, "wedges") THEN features_wedges
    ELSE IF Named(c, "ws") THEN wsfeatures(false, 3, false, false, false)
    ELSE IF Named(c, "wsall") THEN wsfeatures(true, 3, true, true, true)
    ELSE <<>>

\* no two templates of a registry have the same identifier()
DistinctIdentifiers(registry) ==
    \A i, j \in DOMAIN registry :
        i < j => registry[i].identifier_string # registry[j].identifier_string

InitCatalogue ==
    /\ NoExtraction
    /\ bp_pc = "start"
    /\ bp_feature_id = FreshTables
    /\ bp_maxid = 0
    /\ fdin = <<>>
    /\ NoWeightsFile
    /\ call \in FeatureClassPtrsCalls
    /\ ret = [pc |-> "FeatureClassPtrs", todo |-> <<>>, registry |-> <<>>]

\* the constructor knows the name and enters the function that loads the
\* feature set; todo holds the templates that function has still to push
KnownName ==
    /\ "registry" \in DOMAIN ret
    /\ ret.pc = "FeatureClassPtrs"
    /\ ~ UnknownFcname(call)
    /\ ret' = [ret EXCEPT !.pc = "push_back", !.todo = FeatureClassPtrs(call)]
    /\ UNCHANGED <<main, fdin, fwin, nweights, weights, call>>

\* the next template is pushed
PushBack ==
    /\ "registry" \in DOMAIN ret
    /\ ret.pc = "push_back"
    /\ ret.todo # <<>>
    /\ ret' = [ret EXCEPT !.todo = Tail(@),
                          !.registry = Append(@, Head(ret.todo))]
    /\ UNCHANGED <<main, fdin, fwin, nweights, weights, call>>

\* the constructor returns
Constructed ==
    /\ "registry" \in DOMAIN ret
    /\ ret.pc = "push_back"
    /\ ret.todo = <<>>
    /\ ret' = [ret EXCEPT !.pc = "constructed"]
    /\ UNCHANGED <<main, fdin, fwin, nweights, weights, call>>

\* the constructor does not know the name: exit(EXIT_FAILURE)
UnknownName ==
    /\ "registry" \in DOMAIN ret
    /\ ret.pc = "FeatureClassPtrs"
    /\ UnknownFcname(call)
    /\ ret' = [ret EXCEPT !.pc = "exit"]
    /\ UNCHANGED <<main, fdin, fwin, nweights, weights, call>>

NextCatalogue ==
    \/ KnownName
    \/ PushBack
    \/ Constructed
    \/ UnknownName

SpecCatalogue == InitCatalogue /\ [][NextCatalogue]_vars

\* ------------------------------------------- prune_and_renumber, run twice
\* the tables discovery can leave: every feature of a class absent, or
\* tallied in one sentence or more
TallyMaps(t) ==
    UNION {[fs -> 1..MaxSentences] : fs \in SUBSET FeatureSet(t)}

TallyTables ==
    {tables \in [Templates -> UNION {TallyMaps(t) : t \in Templates}] :
        \A t \in Templates : tables[t] \in TallyMaps(t)}

\* the iteration orders of every table of a registry
OrdersOf(fids) ==
    {orders \in [Templates -> UNION {IterationOrders(fids[t]) : t \in Templates}] :
        \A t \in Templates : orders[t] \in IterationOrders(fids[t])}

InitPrune ==
    /\ NoExtraction
    /\ bp_pc = "start"
    /\ bp_feature_id = FreshTables
    /\ bp_maxid = 0
    /\ fdin = <<>>
    /\ NoWeightsFile
    /\ call \in [feature_id : TallyTables, mincount : 0..MaxMinCount]
    /\ ret = <<>>

\* prune_and_renumber(mincount) on the tables discovery left
PruneTallies ==
    /\ "feature_id" \in DOMAIN call
    /\ Len(ret) = 0
    /\ \E orders \in OrdersOf(call.feature_id) :
          ret' = <<prune_and_renumber(call.feature_id, call.mincount, orders)>>
    /\ UNCHANGED <<main, fdin, fwin, nweights, weights, call>>

\* prune_and_renumber(mincount) again, on the tables the first run left
PruneAgain ==
    /\ "feature_id" \in DOMAIN call
    /\ Len(ret) = 1
    /\ \E orders \in OrdersOf(ret[1].fids) :
          ret' = Append(ret, prune_and_renumber(ret[1].fids, call.mincount, orders))
    /\ UNCHANGED <<main, fdin, fwin, nweights, weights, call>>

NextPrune ==
    \/ PruneTallies
    \/ PruneAgain

SpecPrune == InitPrune /\ [][NextPrune]_vars

\* ------------------------------------- discovery and the order of sentences
\* the largest sentence of a corpus whose two orders are compared
MaxCorpusWeight == 1

CorpusSentenceSet ==
    UNION {SentencesOf(n, w) : n \in 0..MaxParses, w \in 0..MaxCorpusWeight}

\* a corpus of two sentences and the -c / -i options of the run
CorpusSet ==
    {c \in [first : CorpusSentenceSet, second : CorpusSentenceSet,
            collect_correct : BOOLEAN, collect_incorrect : BOOLEAN] :
        c.collect_correct \/ c.collect_incorrect}

\* map_sentences_cmd over the sentences of corpus, in the order given
RECURSIVE extract_features(_, _, _, _)
extract_features(fids, corpus, cc, ci) ==
    IF corpus = <<>> THEN fids
    ELSE extract_features(extract_features_visitor(fids, Head(corpus), cc, ci),
                          Tail(corpus), cc, ci)

\* the features prune_and_renumber keeps under a threshold
Surviving(fids, threshold) ==
    {tf \in Instances(fids) : Survives(IdOf(fids, tf), threshold)}

InitDiscovery ==
    /\ NoExtraction
    /\ bp_pc = "start"
    /\ bp_feature_id = FreshTables
    /\ bp_maxid = 0
    /\ fdin = <<>>
    /\ NoWeightsFile
    /\ call \in CorpusSet
    /\ ret = [feature_id |-> FreshTables, visited |-> {}]

\* the visitor is given the sentence named first
VisitFirst ==
    /\ "first" \in DOMAIN call
    /\ "first" \notin ret.visited
    /\ ret' = [feature_id |-> extract_features_visitor(ret.feature_id, call.first,
                                  call.collect_correct, call.collect_incorrect),
               visited |-> ret.visited \cup {"first"}]
    /\ UNCHANGED <<main, fdin, fwin, nweights, weights, call>>

\* the visitor is given the sentence named second
VisitSecond ==
    /\ "second" \in DOMAIN call
    /\ "second" \notin ret.visited
    /\ ret' = [feature_id |-> extract_features_visitor(ret.feature_id, call.second,
                                  call.collect_correct, call.collect_incorrect),
               visited |-> ret.visited \cup {"second"}]
    /\ UNCHANGED <<main, fdin, fwin, nweights, weights, call>>

NextDiscovery ==
    \/ VisitFirst
    \/ VisitSecond

SpecDiscovery == InitDiscovery /\ [][NextDiscovery]_vars

\* -------------------------------------------- the runs the wrapper starts
\* extract.pl writes every tree as an n-best list of one item and calls
\* extract-spfeatures with -s $mincount -c -i -a on that corpus
InitWrapper ==
    /\ collect_correct = TRUE
    /\ collect_incorrect = TRUE
    /\ absolute_counts = TRUE
    /\ mincount \in 1..MaxMinCount
    /\ pc = "extract_read"
    /\ sentence = NoSentence
    /\ feature_id = FreshTables
    /\ nread = 0
    /\ nambiguous = 0
    /\ nprune = 0
    /\ ndropped = 0
    /\ maxid = 0
    /\ cout = <<>>
    /\ p_i_v = <<>>
    /\ out = NoRecord
    /\ nrecords = 0
    /\ bp_pc = "start"
    /\ bp_feature_id = FreshTables
    /\ bp_maxid = 0
    /\ fdin = <<>>
    /\ NoWeightsFile
    /\ NoCall

\* the sentence read during discovery is one of the wrapper's
ReadWrappedTrainSentence ==
    /\ ReadTrainSentence
    /\ nparses(sentence') = 1

\* the sentence read by write_features is one of the wrapper's
ReadWrappedSentence ==
    /\ ReadSentence
    /\ nparses(sentence') = 1

NextWrapper ==
    \/ ReadWrappedTrainSentence
    \/ ExtractFeatures
    \/ NextTrainSentence
    \/ EndOfTrainingData
    \/ PruneAndRenumber
    \/ ReadWrappedSentence
    \/ WriteFeatures
    \/ NextSentence
    \/ EndOfMain

SpecWrapper == InitWrapper /\ [][NextWrapper]_vars

\* ------------------------------------------- Rule and NGram on one node
\* static symbols of FeatureClass
childmarker == <<"*", "C", "H", "I", "L", "D", "*">>
adjunctmarker == <<"*", "A", "D", "J", "*">>
conjunctmarker == <<"*", "C", "O", "N", "J", "*">>
headmarker == <<"*", "H", "E", "A", "D", "*">>
lastadjunctmarker == <<"*", "L", "A", "S", "T", "A", "D", "J", "*">>
lastconjunctmarker == <<"*", "L", "A", "S", "T", "C", "O", "N", "J", "*">>
nonrootmarker == <<"*", "N", "O", "N", "R", "O", "O", "T", "*">>
postheadmarker == <<"*", "P", "O", "S", "T", "H", "E", "A", "D", "*">>
preheadmarker == <<"*", "P", "R", "E", "H", "E", "A", "D", "*">>
ROOT == <<"R", "O", "O", "T">>
S_symbol == <<"S">>
SBAR == <<"S", "B", "A", "R">>
VP == <<"V", "P">>

\* every template the constructor can push, whatever the name given
AllTemplates ==
    UNION {LET fcps == FeatureClassPtrs(c) IN {fcps[k] : k \in DOMAIN fcps} :
              c \in {d \in FeatureClassPtrsCalls : ~ UnknownFcname(d)}}

\* the Rule and the NGram templates among them
RuleTemplates == {t \in AllTemplates : "nanctrees" \in DOMAIN t}
NGramTemplates ==
    {t \in AllTemplates : "fraglen" \in DOMAIN t /\ "headdir" \notin DOMAIN t}

\* a pointer to a node is a sequence of one node, NULL the empty sequence;
\* a lexical head is a preterminal (functional or not) over its word, and
\* is the node itself when the node is that preterminal
Lexhead(self, cat, word, functional) ==
    <<[self |-> self, cat |-> cat, word |-> word, functional |-> functional]>>

\* the children explored: two preterminals, two phrases headed by a word
\* below them, and a node without lexical head; both kinds of head agree
ChildSet ==
    {[cat |-> c.cat, syntactic_lexhead |-> c.lexhead, semantic_lexhead |-> c.lexhead] :
        c \in {[cat |-> <<"D", "T">>, lexhead |-> Lexhead(TRUE, <<"D", "T">>, <<"t", "h", "e">>, TRUE)],
               [cat |-> <<"N", "N">>, lexhead |-> Lexhead(TRUE, <<"N", "N">>, <<"d", "o", "g">>, FALSE)],
               [cat |-> <<"P", "P">>, lexhead |-> Lexhead(FALSE, <<"I", "N">>, <<"o", "f">>, TRUE)],
               [cat |-> NP, lexhead |-> Lexhead(FALSE, <<"N", "N">>, <<"d", "o", "g">>, FALSE)],
               [cat |-> <<",">>, lexhead |-> <<>>]}}

\* the most children a node explored has
MaxChildren == 2

\* an ancestor: its category, is_coordination(), is_adjunction() and
\* is_last_nonpunctuation(), and its children before and after the node below
Ancestor(cat, kind, last, before, after) ==
    [cat |-> cat, coordination |-> kind = "coordination",
     adjunction |-> kind = "adjunction", last_nonpunctuation |-> last,
     before |-> before, after |-> after]

\* the chains of label.parent explored, nearest ancestor first
AncestorsSet ==
    LET dt == CHOOSE c \in ChildSet : c.cat = <<"D", "T">>
        pp == CHOOSE c \in ChildSet : c.cat = <<"P", "P">>
    IN  {<<>>,
         <<Ancestor(S_symbol, "plain", TRUE, <<>>, <<>>)>>,
         <<Ancestor(VP, "coordination", FALSE, <<dt>>, <<pp>>)>>,
         <<Ancestor(NP, "adjunction", TRUE, <<>>, <<pp>>),
           Ancestor(S_symbol, "plain", TRUE, <<dt>>, <<>>)>>,
         <<Ancestor(VP, "coordination", TRUE, <<pp>>, <<>>),
           Ancestor(VP, "adjunction", FALSE, <<>>, <<>>),
           Ancestor(SBAR, "plain", TRUE, <<>>, <<>>),
           Ancestor(ROOT, "plain", TRUE, <<>>, <<>>)>>}

\* the nodes node_featurecount is given: a nonterminal with its children and
\* head child (0 is NULL), or a preterminal
RuleNodeSet ==
    {[cat |-> NP, nonterminal |-> TRUE, children |-> cs,
      syntactic_headchild |-> h, semantic_headchild |-> h, ancestors |-> up] :
        cs \in UNION {[1..n -> ChildSet] : n \in 1..MaxChildren},
        h \in 0..MaxChildren, up \in AncestorsSet}
    \cup {[cat |-> <<"N", "N">>, nonterminal |-> FALSE, children |-> <<>>,
           syntactic_headchild |-> 0, semantic_headchild |-> 0, ancestors |-> up] :
             up \in AncestorsSet}

\* the nodes whose head child is one of their children
WellFormed(node) == node.syntactic_headchild <= Len(node.children)

\* push_child_features(node, parent, f, highest_level): is_headchild
\* tells whether node is the head child of parent
push_child_features(tmpl, node, is_headchild, f, highest_level) ==
    LET lexhead == IF tmpl.type = annotation_type_semantic
                   THEN node.semantic_lexhead ELSE node.syntactic_lexhead
        f1 == Append(f, node.cat)
        below(level) ==
            /\ tmpl.all < level
            /\ (~ lexhead[1].functional \/ tmpl.functional < level)
            /\ (~ is_headchild \/ tmpl.head < level)
        f2 == IF lexhead[1].self THEN f1
              ELSE f1 \o <<headmarker, lexhead[1].cat>>
        h2 == IF lexhead[1].self THEN highest_level
              ELSE max(highest_level, annotation_level_pos)
    IN  IF lexhead = <<>> THEN [f |-> f1, highest_level |-> highest_level]
        ELSE IF below(annotation_level_pos)
        THEN [f |-> f1, highest_level |-> highest_level]
        ELSE IF below(annotation_level_lexical)
        THEN [f |-> f2, highest_level |-> h2]
        ELSE [f |-> Append(f2, lexhead[1].word),
              highest_level |-> max(h2, annotation_level_lexical)]

\* the category of the node j levels above the node given (the node itself
\* for j = 0), and whether its label.parent is NULL
CatAt(node, j) == IF j = 0 THEN node.cat ELSE node.ancestors[j].cat
ParentIsNull(node, j) == j + 1 > Len(node.ancestors)

\* is_bounding_node of the node j levels up; false of NULL
is_bounding_node(node, j) ==
    /\ j <= Len(node.ancestors)
    /\ CatAt(node, j) \in {NP, ROOT, S_symbol, SBAR}

\* the loop over nanccats of push_ancestor_features, from level j
RECURSIVE AncestorCats(_, _, _, _, _)
AncestorCats(tmpl, node, i, j, f) ==
    IF i <= tmpl.nanccats /\ ~ ParentIsNull(node, j)
    THEN LET parent == node.ancestors[j + 1]
             f1 == Append(f, CatAt(node, j))
             f2 == IF tmpl.label_conjunct = true /\ parent.coordination
                   THEN Append(f1, IF parent.last_nonpunctuation
                                   THEN lastconjunctmarker ELSE conjunctmarker)
                   ELSE IF tmpl.label_conjunct = true /\ parent.adjunction
                   THEN Append(f1, IF parent.last_nonpunctuation
                                   THEN lastadjunctmarker ELSE adjunctmarker)
                   ELSE f1
         IN  AncestorCats(tmpl, node, i + 1, j + 1, f2)
    ELSE [f |-> f, parent |-> j + 1]

\* the loop of label_root: the first bounding node, from level j up, whose
\* parent is not a bounding node
RECURSIVE NonRoot(_, _, _)
NonRoot(node, j, f) ==
    IF j > Len(node.ancestors) THEN f
    ELSE IF is_bounding_node(node, j) /\ ~ is_bounding_node(node, j + 1)
    THEN Append(f, nonrootmarker)
    ELSE NonRoot(node, j + 1, f)

\* push_ancestor_features(node, f), node being j levels above the node given
push_ancestor_features(tmpl, node, j, f) ==
    LET r == AncestorCats(tmpl, node, 0, j, Append(f, endmarker))
    IN  IF tmpl.label_root = true THEN NonRoot(node, r.parent, r.f) ELSE r.f

\* the head child node_featurecount compares the children with
HeadChild(tmpl, node) ==
    IF tmpl.type = annotation_type_semantic
    THEN node.semantic_headchild ELSE node.syntactic_headchild

\* push_child_features on the children cs in turn; heads[k] tells whether
\* cs[k] is the head child
RECURSIVE PushChildren(_, _, _, _)
PushChildren(tmpl, cs, heads, acc) ==
    IF cs = <<>> THEN acc
    ELSE PushChildren(tmpl, Tail(cs), Tail(heads),
                      push_child_features(tmpl, Head(cs), Head(heads),
                                          acc.f, acc.highest_level))

\* Rule: the loop over the nanctrees ancestor rules, from level j
RECURSIVE AncestorRules(_, _, _, _, _)
AncestorRules(tmpl, node, i, j, acc) ==
    IF i < tmpl.nanctrees /\ ~ ParentIsNull(node, j)
    THEN LET parent == node.ancestors[j + 1]
             nobody(cs) == [k \in DOMAIN cs |-> FALSE]
             a1 == PushChildren(tmpl, parent.before, nobody(parent.before),
                                [acc EXCEPT !.f = Append(@, endmarker)])
             a2 == [a1 EXCEPT !.f = @ \o <<childmarker, CatAt(node, j)>>]
             a3 == PushChildren(tmpl, parent.after, nobody(parent.after), a2)
         IN  AncestorRules(tmpl, node, i + 1, j + 1, a3)
    ELSE [f |-> acc.f, highest_level |-> acc.highest_level, node |-> j]

\* Rule::node_featurecount up to its test of highest_level
Rule_feature(tmpl, node) ==
    LET heads == [k \in DOMAIN node.children |-> k = HeadChild(tmpl, node)]
        own == PushChildren(tmpl, node.children, heads,
                            [f |-> <<>>, highest_level |-> annotation_level_none])
    IN  AncestorRules(tmpl, node, 0, 0, own)

Rule_node_featurecount(tmpl, node, feat_count) ==
    IF ~ node.nonterminal THEN feat_count
    ELSE LET r == Rule_feature(tmpl, node)
         IN  IF r.highest_level # tmpl.max_annotation_level THEN feat_count
             ELSE Bump(feat_count, push_ancestor_features(tmpl, node, r.node, r.f))

\* NGram: children[pos], a child's position or 0 for the NULL at either end
ChildAt(node, pos) == IF pos = 0 \/ pos > Len(node.children) THEN 0 ELSE pos

\* the inner loop of NGram::node_featurecount over pos
RECURSIVE Fragment(_, _, _, _, _)
Fragment(tmpl, node, pos, last, acc) ==
    IF pos >= last THEN acc
    ELSE LET at == ChildAt(node, pos)
             headchild == HeadChild(tmpl, node)
             r == IF at # 0
                  THEN push_child_features(tmpl, node.children[at],
                                           at = headchild, acc.f, acc.highest_level)
                  ELSE [f |-> Append(acc.f, endmarker),
                        highest_level |-> acc.highest_level]
         IN  Fragment(tmpl, node, pos + 1, last,
                      [f |-> r.f, highest_level |-> r.highest_level,
                       includes_headchild |-> acc.includes_headchild \/ at = headchild])

\* one turn of the loop over start, up to its test of highest_level;
\* undefined when the head child is pushed and there is none
NGram_window(tmpl, node, start, headposition) ==
    LET headchild == HeadChild(tmpl, node)
        r == Fragment(tmpl, node, start, start + tmpl.fraglen,
                      [f |-> <<>>, highest_level |-> annotation_level_none,
                       includes_headchild |-> FALSE])
        f1 == Append(r.f, headposition)
        push == ~ r.includes_headchild /\ tmpl.head # annotation_level_none
        h == IF push /\ headchild # 0
             THEN push_child_features(tmpl, node.children[headchild], TRUE,
                                      f1, r.highest_level)
             ELSE [f |-> f1, highest_level |-> r.highest_level]
    IN  [f |-> h.f, highest_level |-> h.highest_level,
         undefined |-> push /\ headchild = 0]

\* the loop over start going on to the next window when the test fails
RECURSIVE NGram_windows_Continue(_, _, _, _, _)
NGram_windows_Continue(tmpl, node, start, headposition, feat_count) ==
    IF start + tmpl.fraglen > Len(node.children) + 2 THEN feat_count
    ELSE LET hp == IF ChildAt(node, start) = HeadChild(tmpl, node)
                   THEN postheadmarker ELSE headposition
             w == NGram_window(tmpl, node, start, hp)
         IN  IF w.undefined THEN [feat_count EXCEPT !.undefined = TRUE]
             ELSE IF w.highest_level # tmpl.max_annotation_level
             THEN NGram_windows_Continue(tmpl, node, start + 1, hp, feat_count)
             ELSE NGram_windows_Continue(tmpl, node, start + 1, hp,
                      [feat_count EXCEPT !.feat_count =
                           Bump(@, push_ancestor_features(tmpl, node, 0, w.f))])

\* the loop over start: a window that fails the test ends the function
RECURSIVE NGram_windows(_, _, _, _, _)
NGram_windows(tmpl, node, start, headposition, feat_count) ==
    IF start + tmpl.fraglen > Len(node.children) + 2 THEN feat_count
    ELSE LET hp == IF ChildAt(node, start) = HeadChild(tmpl, node)
                   THEN postheadmarker ELSE headposition
             w == NGram_window(tmpl, node, start, hp)
         IN  IF w.undefined THEN [feat_count EXCEPT !.undefined = TRUE]
             ELSE IF w.highest_level # tmpl.max_annotation_level THEN feat_count
             ELSE NGram_windows(tmpl, node, start + 1, hp,
                      [feat_count EXCEPT !.feat_count =
                           Bump(@, push_ancestor_features(tmpl, node, 0, w.f))])

\* NGram::node_featurecount: feat_count afterwards, and whether the call
\* has dereferenced a NULL head child
NGram_node_featurecount(tmpl, node, feat_count) ==
    IF ~ node.nonterminal \/ Len(node.children) < tmpl.fraglen
    THEN [feat_count |-> feat_count, undefined |-> FALSE]
    ELSE NGram_windows(tmpl, node, 0, preheadmarker,
                       [feat_count |-> feat_count, undefined |-> FALSE])

\* the values start takes in the loop of NGram::node_featurecount when no
\* turn ends it
Starts(tmpl, node) ==
    IF ~ node.nonterminal \/ Len(node.children) < tmpl.fraglen THEN {}
    ELSE 0..(Len(node.children) + 2 - tmpl.fraglen)

\* headposition in the turn of start: postheadmarker from the first start
\* whose child is the head child
HeadPositionAt(tmpl, node, start) ==
    IF \E s \in 0..start : ChildAt(node, s) = HeadChild(tmpl, node)
    THEN postheadmarker ELSE preheadmarker

\* the window of start, whether its level is the template's maximum, and
\* the feature counted for it
WindowAt(tmpl, node, start) ==
    NGram_window(tmpl, node, start, HeadPositionAt(tmpl, node, start))
WindowPasses(tmpl, node, start) ==
    WindowAt(tmpl, node, start).highest_level = tmpl.max_annotation_level
WindowFeature(tmpl, node, start) ==
    push_ancestor_features(tmpl, node, 0, WindowAt(tmpl, node, start).f)

\* feat_count when exactly the windows of starts are counted
CountsOf(tmpl, node, starts) ==
    [f \in {WindowFeature(tmpl, node, s) : s \in starts} |->
        Cardinality({s \in starts : WindowFeature(tmpl, node, s) = f})]

\* two maps hold the same counts
SameCounts(a, b) ==
    /\ DOMAIN a = DOMAIN b
    /\ \A f \in DOMAIN a : a[f] = b[f]

InitRule ==
    /\ NoExtraction
    /\ bp_pc = "start"
    /\ bp_feature_id = FreshTables
    /\ bp_maxid = 0
    /\ fdin = <<>>
    /\ NoWeightsFile
    /\ \/ call \in [class : {"Rule"}, fc : RuleTemplates,
                      node : {n \in RuleNodeSet : WellFormed(n)}]
       \/ call \in [class : {"NGram"}, fc : NGramTemplates,
                      node : {n \in RuleNodeSet : WellFormed(n)}]
    /\ ret = <<>>

\* Rule::node_featurecount on the node, feat_count being empty
RuleNodeFeaturecount ==
    /\ "class" \in DOMAIN call
    /\ call.class = "Rule"
    /\ ret = <<>>
    /\ ret' = [feat_count |-> Rule_node_featurecount(call.fc, call.node, EmptyMap),
               undefined |-> FALSE]
    /\ UNCHANGED <<main, fdin, fwin, nweights, weights, call>>

\* NGram::node_featurecount on the node, feat_count being empty
NGramNodeFeaturecount ==
    /\ "class" \in DOMAIN call
    /\ call.class = "NGram"
    /\ ret = <<>>
    /\ ret' = NGram_node_featurecount(call.fc, call.node, EmptyMap)
    /\ UNCHANGED <<main, fdin, fwin, nweights, weights, call>>

NextRule ==
    \/ RuleNodeFeaturecount
    \/ NGramNodeFeaturecount

SpecRule == InitRule /\ [][NextRule]_vars

\* ------------------------------------- write_features on a development file
\* the counts extract_features leaves when it has seen every feature of
\* every class in one sentence
SeenOnce == [t \in Templates |-> [f \in FeatureSet(t) |-> 1]]

\* main() after prune_and_renumber and the training file, every feature
\* having survived, for every order the features were numbered in
InitExport ==
    /\ collect_correct = TRUE
    /\ collect_incorrect = TRUE
    /\ absolute_counts \in BOOLEAN
    /\ mincount = 1
    /\ pc = "write_read"
    /\ sentence = NoSentence
    /\ \E orders \in [Templates -> UNION {IterationOrders(SeenOnce[t]) : t \in Templates}] :
          /\ \A t \in Templates : orders[t] \in IterationOrders(SeenOnce[t])
          /\ LET r == prune_and_renumber(SeenOnce, 1, orders)
             IN  /\ feature_id = r.fids
                 /\ maxid = r.nextid
                 /\ cout = r.os
    /\ nread = 0
    /\ nambiguous = 0
    /\ nprune = 1
    /\ ndropped = 0
    /\ p_i_v = <<>>
    /\ out = NoRecord
    /\ nrecords = 0
    /\ bp_pc = "start"
    /\ bp_feature_id = FreshTables
    /\ bp_maxid = 0
    /\ fdin = <<>>
    /\ NoWeightsFile
    /\ NoCall

\* write_features on a development file of one sentence:
\* sentence.read(parsein, goldin, lowercase_flag)
ReadDevSentence ==
    /\ pc = "write_read"
    /\ nrecords = 0
    /\ \E s \in DevSentenceSet : sentence' = s
    /\ pc' = "write_record"
    /\ UNCHANGED <<aux, options, feature_id, nread, nambiguous, pruned,
                   p_i_v, out, nrecords, bestparses>>

NextExport ==
    \/ ReadDevSentence
    \/ WriteFeatures
    \/ NextSentence

SpecExport == InitExport /\ [][NextExport]_vars

\* --------------------------------------------------- best-parses: best_parse
\* w += ivit->second * ws[ivit->first] over i_v in id order; the ids yet to
\* come are todo
RECURSIVE ParseWeight(_, _, _, _)
ParseWeight(i_v, ws, todo, w) ==
    IF todo = {} THEN w
    ELSE LET id == MinOf(todo)
         IN  ParseWeight(i_v, ws, todo \ {id}, w + i_v[id] * ws[id])

\* the loop of best_parse taking a later parse of the same weight as well
RECURSIVE BestLoop_OrEqual(_, _, _, _, _)
BestLoop_OrEqual(parse_id_val, ws, i, i_max, max_weight) ==
    IF i >= Cardinality(DOMAIN parse_id_val) THEN [status |-> "ok", i_max |-> i_max]
    ELSE LET i_v == parse_id_val[i]
         IN  IF \E id \in DOMAIN i_v : ~(id < Cardinality(DOMAIN ws))
             THEN [status |-> "abort", i_max |-> i_max]
             ELSE LET w == ParseWeight(i_v, ws, DOMAIN i_v, 0)
                  IN  IF i = 0 \/ w >= max_weight
                      THEN BestLoop_OrEqual(parse_id_val, ws, i + 1, i, w)
                      ELSE BestLoop_OrEqual(parse_id_val, ws, i + 1, i_max, max_weight)

\* the loop of best_parse over the parses from i on: assert(ivit->first <
\* ws.size()) aborts, and a parse of greater weight becomes the best one;
\* ws.size() is the number of ids ws holds, from 0 on
RECURSIVE BestLoop(_, _, _, _, _)
BestLoop(parse_id_val, ws, i, i_max, max_weight) ==
    IF i >= Cardinality(DOMAIN parse_id_val) THEN [status |-> "ok", i_max |-> i_max]
    ELSE LET i_v == parse_id_val[i]
         IN  IF \E id \in DOMAIN i_v : ~(id < Cardinality(DOMAIN ws))
             THEN [status |-> "abort", i_max |-> i_max]
             ELSE LET w == ParseWeight(i_v, ws, DOMAIN i_v, 0)
                  IN  IF i = 0 \/ w > max_weight
                      THEN BestLoop(parse_id_val, ws, i + 1, i, w)
                      ELSE BestLoop(parse_id_val, ws, i + 1, i_max, max_weight)

\* best_parse(sentence, ws): the index of the parse whose tree is returned
best_parse(fids, s, ws, absolute) ==
    BestLoop(feature_values(fids, s, absolute).p_i_v, ws, 0, 0, 0)

\* the largest id of a definition file, as read_feature_ids returns it
MaxIdOf(file) == read_feature_ids(FreshTables, 0, file).maxid

\* the weights files that give every id up to top a weight, in id order
FullWeightFileSet(top) ==
    {[k \in 1..(top + 1) |-> WeightLine(k - 1, w[k - 1])] :
        w \in [0..top -> WeightValues]}

\* the definition files best-parses is run on here: those of one line at
\* most, and those extract-spfeatures writes when every feature survives
WrittenFileSet ==
    {prune_and_renumber(SeenOnce, 1, orders).os :
        orders \in {o \in [Templates -> UNION {IterationOrders(SeenOnce[t]) : t \in Templates}] :
                       \A t \in Templates : o[t] \in IterationOrders(SeenOnce[t])}}

\* best-parses after its options are read: -a clears absolute_counts
InitBestParse ==
    /\ collect_correct = FALSE
    /\ collect_incorrect = FALSE
    /\ absolute_counts \in BOOLEAN
    /\ mincount = 5
    /\ pc = "done"
    /\ sentence = NoSentence
    /\ feature_id = FreshTables
    /\ nread = 0
    /\ nambiguous = 0
    /\ nprune = 0
    /\ ndropped = 0
    /\ maxid = 0
    /\ cout = <<>>
    /\ p_i_v = <<>>
    /\ out = NoRecord
    /\ nrecords = 0
    /\ bp_pc = "start"
    /\ bp_feature_id = FreshTables
    /\ bp_maxid = 0
    /\ fdin \in ShortFileSet \cup WrittenFileSet
    /\ fwin \in FullWeightFileSet(MaxIdOf(fdin))
    /\ nweights = 0
    /\ weights = <<>>
    /\ NoCall

\* one turn of while (s.read_ec_nbest_15aug05(...)) in mode 0: the sentence
\* read has a parse at least, and best_parse is called on it
BestParse ==
    /\ bp_pc = "loaded"
    /\ \E s \in SentenceSet \ {<<>>} :
          /\ call' = [sentence |-> s]
          /\ ret' = best_parse(bp_feature_id, s, weights, absolute_counts)
    /\ bp_pc' = "best"
    /\ UNCHANGED <<extraction, bp_feature_id, bp_maxid, fdin, fwin, nweights, weights>>

\* write_tree_noquote_root(std::cout, ...) of the tree returned, and on to
\* the next sentence; nothing is written when an assertion has failed
WriteBestTree ==
    /\ bp_pc = "best"
    /\ bp_pc' = IF ret.status = "ok" THEN "loaded" ELSE "abort"
    /\ call' = <<>>
    /\ ret' = <<>>
    /\ UNCHANGED <<extraction, bp_feature_id, bp_maxid, fdin, fwin, nweights, weights>>

NextBestParse ==
    \/ ReadFeatureIdsFrom
    \/ OpenWeights
    \/ ReadWeight
    \/ EndOfWeights
    \/ BestParse
    \/ WriteBestTree

SpecBestParse == InitBestParse /\ [][NextBestParse]_vars

\* -------------------------------------------------------------------- claims
\* C1: after prune_and_renumber the ids are unique over the whole registry,
\* form one contiguous integer range, and every id of an earlier class is
\* smaller than every id of a later class.
C1_IdsUniqueDenseOrdered ==
    nprune > 0 =>
        /\ \A a, b \in Instances(feature_id) :
              a # b => IdOf(feature_id, a) # IdOf(feature_id, b)
        /\ \A x, z \in IdSet(feature_id) :
              \A y \in x..z : y \in IdSet(feature_id)
        /\ \A a, b \in Instances(feature_id) :
              a[1] < b[1] => IdOf(feature_id, a) < IdOf(feature_id, b)

\* both classes hold ids, the second one two of them
C1_Witness ==
    /\ nprune > 0
    /\ DOMAIN feature_id[1] # {}
    /\ Cardinality(DOMAIN feature_id[2]) = 2

\* C2: prune_and_renumber(mincount) leaves in every class's table exactly the
\* features whose sentence count was >= mincount.
C2_PruneKeepsExactlyFrequent ==
    [][pc = "prune" =>
         \A t \in Templates :
            DOMAIN feature_id'[t] =
               {f \in DOMAIN feature_id[t] : feature_id[t][f] >= mincount}]_vars

\* a prune that removed one feature and kept another
C2_Witness ==
    /\ nprune > 0
    /\ ndropped > 0
    /\ Instances(feature_id) # {}

C6_Original ==
    [][pc = "extract_visit" /\ collect_correct /\ ~collect_incorrect
          /\ nparses(sentence) = 2 =>
         \A t \in Templates : \A f \in FeatureSet(t) :
            (Tally(feature_id'[t], f) = Tally(feature_id[t], f) + 1)
               <=> /\ ~Observed(t, f, sentence[0]) \/ RawCount(t, f, sentence[0]) = 0
                   /\ Observed(t, f, sentence[1]) /\ RawCount(t, f, sentence[1]) # 0]_vars

\* C6 (amended): with -c only, a sentence of 2 candidates increments exactly
\* the counts of the features observed on candidate 0 that are not observed
\* with the same count on both candidates; every other count stays as it is,
\* so a feature appearing identically on both candidates is dropped.
C6_CollectCorrectKeepsCandidate0 ==
    [][pc = "extract_visit" /\ collect_correct /\ ~collect_incorrect
          /\ nparses(sentence) = 2 =>
         \A t \in Templates : \A f \in FeatureSet(t) :
            Tally(feature_id'[t], f) =
               Tally(feature_id[t], f)
                  + (IF Observed(t, f, sentence[0])
                        /\ ~SameOnEveryCandidate(t, f, sentence)
                     THEN 1 ELSE 0)]_vars

\* -c only, first sentence: RightBranch 0 is on candidate 0 only and counted,
\* RightBranch 1 is on candidate 1 only and not counted
C6_Witness ==
    /\ pc = "extract_next"
    /\ collect_correct /\ ~collect_incorrect
    /\ nparses(sentence) = 2
    /\ nread = 1
    /\ Observed(2, 0, sentence[0]) /\ ~Observed(2, 0, sentence[1])
    /\ Observed(2, 1, sentence[1]) /\ ~Observed(2, 1, sentence[0])
    /\ Tally(feature_id[2], 0) = 1
    /\ Tally(feature_id[2], 1) = 0

\* C7: discovery runs only before prune_and_renumber, prune_and_renumber runs
\* once, and no feature-count record is written before it has run: main() is
\* in its discovery part exactly while no prune has happened and no record is
\* written, and past it exactly when one prune has happened.
C7_DiscoverPruneActive ==
    /\ pc \in {"extract_read", "extract_visit", "extract_next", "prune"}
          => nprune = 0 /\ nrecords = 0
    /\ pc \in {"write_read", "write_record", "write_next", "done"}
          => nprune = 1

\* a finished run that discovered, pruned once and wrote a record
C7_Witness ==
    /\ pc = "done"
    /\ nprune = 1
    /\ nrecords >= 1
    /\ Instances(feature_id) # {}

\* C8: feature_values leaves every class's table as it was, also when the
\* parses hold features that have no id.
C8_ExportReadOnly ==
    [][pc = "write_record" => feature_id' = feature_id]_vars

\* a record was written for a sentence holding a feature that has no id
C8_Witness ==
    /\ pc = "write_next"
    /\ Instances(feature_id) # {}
    /\ \E t \in Templates : \E f \in FeatureSet(t) : \E i \in DOMAIN sentence :
          Observed(t, f, sentence[i]) /\ f \notin DOMAIN feature_id[t]

\* C9: the exported vectors are the ones the features that hold an id give
\* by themselves, the occurrences of features without id adding nothing, and
\* every id in an exported vector is an id of some class's table.
C9_IdlessDropped ==
    pc = "write_next" =>
        /\ p_i_v = [i \in DOMAIN sentence |->
                       ExpectedVector(feature_id, sentence, i, absolute_counts)]
        /\ \A i \in DOMAIN p_i_v : DOMAIN p_i_v[i] \subseteq IdSet(feature_id)

\* a candidate holds a feature without id next to one with an id, and its
\* exported vector is not empty
C9_Witness ==
    /\ pc = "write_next"
    /\ \E i \in DOMAIN sentence :
          /\ DOMAIN p_i_v[i] # {}
          /\ \E t \in Templates : \E f \in FeatureSet(t) :
                /\ Observed(t, f, sentence[i]) /\ RawCount(t, f, sentence[i]) > 0
                /\ f \notin DOMAIN feature_id[t]

\* C10: read_feature_ids on what prune_and_renumber printed, into the same
\* catalogue freshly constructed, succeeds, gives every class the table the
\* writer holds, and returns the largest id of those tables.
C10_RoundTrip ==
    bp_pc # "start" =>
        /\ bp_pc = "restored"
        /\ bp_feature_id = feature_id
        /\ \A id \in IdSet(feature_id) : id <= bp_maxid
        /\ IdSet(feature_id) # {} => bp_maxid \in IdSet(feature_id)

\* three definitions, of both classes, were written and read back
C10_Witness ==
    /\ bp_pc = "restored"
    /\ DOMAIN bp_feature_id[1] # {}
    /\ Cardinality(DOMAIN bp_feature_id[2]) = 2
    /\ Len(cout) = 3
    /\ bp_maxid = 2

\* C11: read_feature_ids ends the run with a fatal error at the first line
\* that repeats a feature of its class or names a class the catalogue does not
\* hold; the lines after it define nothing, and a file without such a line is
\* read to its end.
C11_RestoreFatal ==
    bp_pc # "start" =>
        LET k == FirstOffending(fdin)
        IN  /\ k = 0 => bp_pc = "restored"
                        /\ bp_feature_id = TablesOf(fdin, Len(fdin))
            /\ k # 0 => bp_pc = "exit"
                        /\ bp_feature_id = TablesOf(fdin, k - 1)

\* a file whose second line repeats the first one's feature under another id,
\* with a third line after it, ended the run
C11_Witness ==
    /\ bp_pc = "exit"
    /\ Len(fdin) = 3
    /\ FirstOffending(fdin) = 2
    /\ LineClass(fdin[2]) # 0
    /\ fdin[2].id # fdin[1].id
    /\ LineClass(fdin[3]) # 0 /\ ~Offending(fdin, 3)

\* C12: in absolute mode the vector of candidate i holds the id of a feature
\* exactly when the raw count of the feature on candidate i is not 0, the
\* value is that raw count, and no entry of a vector is 0.
C12_AbsoluteCounts ==
    pc = "write_next" /\ absolute_counts =>
        \A i \in DOMAIN sentence :
           /\ \A tf \in Instances(feature_id) :
                 LET id  == IdOf(feature_id, tf)
                     raw == RawCount(tf[1], tf[2], sentence[i])
                 IN  /\ id \in DOMAIN p_i_v[i] <=> raw # 0
                     /\ id \in DOMAIN p_i_v[i] => p_i_v[i][id] = raw
           /\ \A id \in DOMAIN p_i_v[i] :
                 id \in IdSet(feature_id) /\ p_i_v[i][id] # 0

\* absolute mode, three candidates: RightBranch 1 has the raw counts 1, 0, 1
\* and NLogP the raw count 0 on the first candidate
C12_Witness ==
    /\ pc = "write_next" /\ absolute_counts
    /\ nparses(sentence) = 3
    /\ RawCount(2, 1, sentence[0]) = 1
    /\ RawCount(2, 1, sentence[1]) = 0
    /\ RawCount(2, 1, sentence[2]) = 1
    /\ RawCount(1, 0, sentence[0]) = 0
    /\ RawCount(1, 0, sentence[1]) = 1
    /\ feature_id[2][1] \in DOMAIN p_i_v[0]
    /\ feature_id[2][1] \notin DOMAIN p_i_v[1]

\* the candidates of s on which feature f of class t has the raw count v
CandidatesAt(t, f, s, v) == {i \in DOMAIN s : RawCount(t, f, s[i]) = v}

\* 2 * |{i : c_i = m}| + |{i : c_i = m + 1}|
Score(t, f, s, m) ==
    2 * Cardinality(CandidatesAt(t, f, s, m))
       + Cardinality(CandidatesAt(t, f, s, m + 1))

SubtractedFor(tf) ==
    LET id == IdOf(feature_id, tf)
    IN  RawCount(tf[1], tf[2], sentence[0])
           - (IF id \in DOMAIN p_i_v[0] THEN p_i_v[0][id] ELSE 0)

\* the buckets of highest total weight
TiedBest(t, f, s) ==
    {m \in (-1)..Heaviest :
        \A v \in (-2)..(Heaviest + 1) : Score(t, f, s, v) <= Score(t, f, s, m)}

\* the position at which bucket v enters the table: candidate i puts its
\* count in first and its count less 1 second
InsertedAt(t, f, s, v) ==
    MinOf({2 * i : i \in CandidatesAt(t, f, s, v)}
          \cup {2 * i + 1 : i \in CandidatesAt(t, f, s, v + 1)})

\* the feature is observed in the sentence being written, in relative mode
Normalised(tf) ==
    /\ pc = "write_next" /\ ~absolute_counts
    /\ \E j \in DOMAIN sentence : Observed(tf[1], tf[2], sentence[j])

\* C14 (as stated): among the buckets that tie for the highest weight, the
\* mode is the one that entered the table first during the scan of the
\* candidates in index order.
C14_Original ==
    \A tf \in Instances(feature_id) :
       Normalised(tf) =>
          LET best == TiedBest(tf[1], tf[2], sentence)
          IN  /\ SubtractedFor(tf) \in best
              /\ \A v \in best :
                    InsertedAt(tf[1], tf[2], sentence, SubtractedFor(tf))
                       <= InsertedAt(tf[1], tf[2], sentence, v)

\* C14 (amended): among the buckets that tie for the highest weight, the
\* mode is the numerically smallest one, whatever the order they entered the
\* table in.
C14_SmallestTiedValue ==
    \A tf \in Instances(feature_id) :
       Normalised(tf) =>
          LET best == TiedBest(tf[1], tf[2], sentence)
          IN  /\ SubtractedFor(tf) \in best
              /\ \A v \in best : SubtractedFor(tf) <= v

\* the raw counts 2, 0 of RightBranch 0: buckets 2 and 0 tie, 2 entered the
\* table first, 0 is subtracted
C14_Witness ==
    /\ Normalised(<<2, 0>>)
    /\ nparses(sentence) = 2
    /\ RawCount(2, 0, sentence[0]) = 2
    /\ RawCount(2, 0, sentence[1]) = 0
    /\ TiedBest(2, 0, sentence) = {0, 2}
    /\ InsertedAt(2, 0, sentence, 2) < InsertedAt(2, 0, sentence, 0)
    /\ SubtractedFor(<<2, 0>>) = 0

\* C15 (as stated): in relative mode the value subtracted from the raw counts
\* of a feature is their most frequent value (missing counted as 0): no raw
\* count occurs on more candidates than the subtracted value does.
C15_MostFrequent ==
    \A tf \in Instances(feature_id) :
       Normalised(tf) =>
          \A v \in 0..Heaviest :
             Cardinality(CandidatesAt(tf[1], tf[2], sentence, v))
                <= Cardinality(CandidatesAt(tf[1], tf[2], sentence, SubtractedFor(tf)))

\* C16: the record write_features writes for a sentence holds one list per
\* candidate, in candidate order, each ended by a comma; a list holds one field
\* per exported feature of its candidate, the bare id when the exported value is
\* exactly 1 and id=value otherwise.
C16_RecordFormat ==
    pc = "write_next" =>
        /\ out.N = nparses(sentence)
        /\ Len(out.lists) = nparses(sentence)
        /\ \A j \in DOMAIN sentence :
              LET list == out.lists[j + 1]
              IN  /\ list.end = ","
                  /\ Len(list.fields) = Cardinality(DOMAIN p_i_v[j])
                  /\ \A id \in DOMAIN p_i_v[j] :
                        \E k \in DOMAIN list.fields :
                            LET field == list.fields[k]
                            IN  /\ ReadDecimal(field.id) = id
                                /\ IF p_i_v[j][id] = 1
                                   THEN ~field.eq /\ field.value = NoValue
                                   ELSE field.eq /\ ReadG(field.value) = p_i_v[j][id]

\* a record of two lists or more, one of which holds a bare id next to an
\* id=value field
C16_Witness ==
    /\ pc = "write_next"
    /\ Len(out.lists) >= 2
    /\ \E j \in DOMAIN out.lists :
          \E k1, k2 \in DOMAIN out.lists[j].fields :
              /\ ~out.lists[j].fields[k1].eq
              /\ out.lists[j].fields[k2].eq

\* C17 as stated: a weights file that names an id twice, or an id above the
\* maximum id of the definition file, ends best-parses in a fatal error whatever
\* the weights are; the ids that the file does not name keep weight 0.
C17_Original ==
    bp_pc \in {"loaded", "abort"} =>
        /\ (Duplicated(fwin) \/ OutOfRange(fwin, bp_maxid)) => bp_pc = "abort"
        /\ bp_pc = "loaded" => \A id \in Unmentioned(fwin, bp_maxid) : weights[id] = 0

\* C17: best-parses ends in a fatal error exactly when some line of the weights
\* file names an id above the maximum id of the definition file, or the id of an
\* earlier line whose weight is not 0; a second line for an id whose weight was
\* given as 0 is accepted. When the file is loaded, the ids that it does not
\* name keep weight 0.
C17_FatalUnlessZero ==
    bp_pc \in {"loaded", "abort"} =>
        /\ bp_pc = "abort" <=> \E k \in 1..Len(fwin) : Rejected(fwin, bp_maxid, k)
        /\ bp_pc = "loaded" => \A id \in Unmentioned(fwin, bp_maxid) : weights[id] = 0

\* best-parses aborted on a file whose ids are all in range and that names an
\* id twice
C17_Witness ==
    /\ bp_pc = "abort"
    /\ bp_maxid >= 1
    /\ Duplicated(fwin)
    /\ ~OutOfRange(fwin, bp_maxid)

\* C18: for v >= 0, quantize(v) is one of 0, 1, 2, 4, 5; quantize(3) = 4; every
\* v >= 5 gives 5; no smaller argument gives a larger value; and
\* symbol_quantize(v) is the symbol whose text is the numeral of quantize(v).
C18_Quantize ==
    call.v >= 0 =>
        /\ "quantize" \in DOMAIN ret =>
              /\ ret["quantize"].status = "ok"
              /\ ret["quantize"].value \in {0, 1, 2, 4, 5}
              /\ call.v = 3 => ret["quantize"].value = 4
              /\ call.v >= 5 => ret["quantize"].value = 5
              /\ \A u \in 0..call.v : quantize(u).value <= ret["quantize"].value
        /\ "symbol_quantize" \in DOMAIN ret =>
              /\ ret["symbol_quantize"].status = "ok"
              /\ ret["symbol_quantize"].value = Numeral(quantize(call.v).value)
        /\ {"quantize", "symbol_quantize"} \subseteq DOMAIN ret =>
              ret["symbol_quantize"].value = Numeral(ret["quantize"].value)

\* both functions have been called on 3
C18_Witness ==
    /\ call.v = 3
    /\ DOMAIN ret = {"quantize", "symbol_quantize"}
    /\ ret["quantize"].value = 4
    /\ ret["symbol_quantize"].value = four

\* C19 as stated: Edges with nleftsucc = 2 and nrightprec = 2 counts no feature
\* for a nonterminal whose span is one word long.
C19_OneWordSpanSkipped ==
    (/\ "feat_count" \in DOMAIN ret
     /\ call.fc.nleftsucc = 2
     /\ call.fc.nrightprec = 2
     /\ call.node.nonterminal
     /\ call.node.right - call.node.left = 1)
    => ret.feat_count = EmptyMap

\* C20 as stated: on a strictly right-branching binary tree of depth 4,
\* RightBranch counts nothing under feature 0.
C20_Original ==
    (/\ "feat_count" \in DOMAIN ret
     /\ StrictlyRightBranching(call)
     /\ Depth(call) = 4)
    => CountOf(ret.feat_count, 0) = 0

\* C20: on a strictly right-branching binary tree, RightBranch counts under
\* feature 1 the nodes of the rightmost branch, which are the nonterminals and
\* the last preterminal, and under feature 0 every other preterminal: 4 and 3
\* for a tree of depth 4.
C20_LastPreterminalOnly ==
    ("feat_count" \in DOMAIN ret /\ StrictlyRightBranching(call)) =>
        /\ CountOf(ret.feat_count, 1) = Depth(call)
        /\ CountOf(ret.feat_count, 0) = Depth(call) - 1
        /\ Depth(call) = 4 => ret.feat_count = (0 :> 3) @@ (1 :> 4)

\* RightBranch has counted a strictly right-branching tree of depth 4
C20_Witness ==
    /\ "feat_count" \in DOMAIN ret
    /\ StrictlyRightBranching(call)
    /\ Depth(call) = 4
    /\ CountOf(ret.feat_count, 0) = 3

\* C21: for every named feature set the FeatureClassPtrs constructor accepts,
\* no two templates pushed into the registry have the same identifier()
\* string.
C21_DistinctIdentifiers ==
    ("registry" \in DOMAIN ret /\ ret.pc = "constructed")
        => DistinctIdentifiers(ret.registry)

\* the default feature set and the largest ws set have been constructed
C21_Witness ==
    /\ "registry" \in DOMAIN ret
    /\ ret.pc = "constructed"
    /\ Named(call, "wsall")
    /\ Len(ret.registry) > 100

\* C22 as stated: a second prune_and_renumber with the same threshold on the
\* tables the first one produced leaves the same set of feature instances.
C22_Original ==
    ("feature_id" \in DOMAIN call /\ Len(ret) = 2)
        => Instances(ret[2].fids) = Instances(ret[1].fids)

\* C22 (amended): the second run compares the ids the first run stored in
\* the tables with the threshold, so it keeps exactly the features whose id
\* from the first run is at least mincount; the surviving set is the same
\* only when no id of the first run is below mincount.
C22_SecondRunComparesIds ==
    ("feature_id" \in DOMAIN call /\ Len(ret) = 2)
        => /\ \A t \in Templates :
                DOMAIN ret[2].fids[t] =
                    {f \in DOMAIN ret[1].fids[t] : ret[1].fids[t][f] >= call.mincount}
           /\ (Instances(ret[2].fids) = Instances(ret[1].fids))
                  <=> (\A t \in Templates : \A f \in DOMAIN ret[1].fids[t] :
                           ret[1].fids[t][f] >= call.mincount)

\* with threshold 1 the first run kept all three features, and the second
\* drops the one numbered 0
C22_Witness ==
    /\ "feature_id" \in DOMAIN call
    /\ Len(ret) = 2
    /\ call.mincount = 1
    /\ Cardinality(Instances(ret[1].fids)) = 3
    /\ Cardinality(Instances(ret[2].fids)) = 2

\* C23: discovery does not depend on the order of the sentences: whichever
\* of two sentences was visited first, the tallies of every class after both
\* are those of either order, and so are the features surviving a threshold.
C23_OrderIndependent ==
    ("first" \in DOMAIN call /\ ret.visited = {"first", "second"})
        => LET cc == call.collect_correct
               ci == call.collect_incorrect
               ab == extract_features(FreshTables, <<call.first, call.second>>, cc, ci)
               ba == extract_features(FreshTables, <<call.second, call.first>>, cc, ci)
           IN  /\ ret.feature_id = ab
               /\ ret.feature_id = ba
               /\ \A threshold \in 0..MaxMinCount :
                      Surviving(ab, threshold) = Surviving(ba, threshold)

\* two different ambiguous sentences were visited, and one feature was
\* tallied in both of them
C23_Witness ==
    /\ "first" \in DOMAIN call
    /\ ret.visited = {"first", "second"}
    /\ call.first # call.second
    /\ nparses(call.first) = 2
    /\ nparses(call.second) = 2
    /\ \E tf \in Instances(ret.feature_id) : IdOf(ret.feature_id, tf) = 2

\* C24: when every sentence of the corpus has exactly one candidate parse and
\* the run uses -c, -i and threshold 1, every feature instance enumerated in
\* a sentence's parse survives discovery and pruning, has an id, and is
\* output for that parse.
C24_SingleParseFeaturesOutput ==
    (pc = "write_next" /\ mincount = 1)
        => \A tf \in Templates \X {0, 1} :
              RawCount(tf[1], tf[2], sentence[0]) # 0
                 => /\ tf \in Instances(feature_id)
                    /\ IdOf(feature_id, tf) \in DOMAIN p_i_v[0]

\* C25: prune_and_renumber numbers the surviving features starting at 1: the
\* smallest id assigned to any feature is 1.
C25_SmallestIdIsOne ==
    (nprune = 1 /\ Instances(feature_id) # {})
        => MinOf(IdSet(feature_id)) = 1

\* C26 as stated: NGram counts every window whose level equals the
\* template's maximum, whether or not an earlier window of the node failed
\* the test, and Rule counts its feature exactly when its level equals the
\* maximum.
C26_Original ==
    ("class" \in DOMAIN call /\ ret # <<>> /\ ~ ret.undefined)
        => IF call.class = "NGram"
           THEN SameCounts(ret.feat_count,
                    CountsOf(call.fc, call.node,
                             {s \in Starts(call.fc, call.node) :
                                 WindowPasses(call.fc, call.node, s)}))
           ELSE (ret.feat_count # EmptyMap)
                    = (call.node.nonterminal
                       /\ Rule_feature(call.fc, call.node).highest_level
                             = call.fc.max_annotation_level)

\* C26: NGram counts a window exactly when its level and the level of every
\* earlier window of the node equal the template's maximum (the first window
\* that fails the test ends the node), and Rule counts its one feature
\* exactly when its level equals the maximum.
C26_EmittedUntilFirstFailure ==
    ("class" \in DOMAIN call /\ ret # <<>> /\ ~ ret.undefined)
        => IF call.class = "NGram"
           THEN SameCounts(ret.feat_count,
                    CountsOf(call.fc, call.node,
                             {s \in Starts(call.fc, call.node) :
                                 \A e \in 0..s : WindowPasses(call.fc, call.node, e)}))
           ELSE /\ (ret.feat_count # EmptyMap)
                    = (call.node.nonterminal
                       /\ Rule_feature(call.fc, call.node).highest_level
                             = call.fc.max_annotation_level)
                /\ \A f \in DOMAIN ret.feat_count : ret.feat_count[f] = 1

\* NGram has run on a node one of whose windows has the maximum level after
\* an earlier window that has not
C26_Witness ==
    /\ "class" \in DOMAIN call
    /\ call.class = "NGram"
    /\ ret # <<>>
    /\ ~ ret.undefined
    /\ \E s \in Starts(call.fc, call.node) :
          /\ WindowPasses(call.fc, call.node, s)
          /\ \E e \in 0..s : ~ WindowPasses(call.fc, call.node, e)

\* C27: a sentence of two or more candidates increments the tally of a
\* feature instance that is not pseudo-constant exactly when -c is set and
\* the instance is observed on candidate 0, or -i is set and the instance is
\* not observed on candidate 0 or is observed on more than one candidate; a
\* pseudo-constant instance is never tallied. With -i only an instance
\* observed on candidate 0 alone is not tallied.
C27_TalliedByFilter ==
    ("first" \in DOMAIN call /\ ret.visited = {"first"} /\ nparses(call.first) >= 2)
        => \A t \in Templates : \A f \in FeatureSet(t) :
              LET s == call.first
                  on == {i \in DOMAIN s : Observed(t, f, s[i])}
              IN  (on # {} /\ ~SameOnEveryCandidate(t, f, s))
                     => (Tally(ret.feature_id[t], f) = 1)
                           = ((call.collect_correct /\ 0 \in on)
                              \/ (call.collect_incorrect
                                  /\ (0 \notin on \/ Cardinality(on) > 1)))

\* -i only, one sentence of two candidates visited: an instance observed on
\* candidate 0 alone, which is not pseudo-constant, is not tallied
C27_Witness ==
    /\ "first" \in DOMAIN call
    /\ ret.visited = {"first"}
    /\ nparses(call.first) = 2
    /\ call.collect_incorrect /\ ~call.collect_correct
    /\ \E t \in Templates : \E f \in FeatureSet(t) :
          /\ Observed(t, f, call.first[0]) /\ ~Observed(t, f, call.first[1])
          /\ Tally(ret.feature_id[t], f) = 0

\* C28: in relative mode the value subtracted for a feature observed in the
\* sentence is the raw count of at least one candidate (0 for a candidate
\* the feature is missing on): a bucket one below a count, which no
\* candidate takes, is never the mode.
C28_ModeIsTaken ==
    \A tf \in Instances(feature_id) :
       Normalised(tf) =>
          CandidatesAt(tf[1], tf[2], sentence, SubtractedFor(tf)) # {}

\* a sentence of several candidates written in relative mode in which a
\* bucket above -1 holds weight from a candidate one above it and is taken
\* by no candidate
C28_Witness ==
    \E tf \in Instances(feature_id) :
       /\ Normalised(tf)
       /\ nparses(sentence) >= 2
       /\ \E v \in 0..Heaviest :
             /\ CandidatesAt(tf[1], tf[2], sentence, v) = {}
             /\ CandidatesAt(tf[1], tf[2], sentence, v + 1) # {}

\* C29: in relative mode a feature whose raw count is the same on every
\* candidate of the sentence is in the exported vector of no candidate, and
\* every vector of a sentence of exactly one candidate is empty.
C29_ConstantNotExported ==
    (pc = "write_next" /\ ~absolute_counts)
        => /\ \A tf \in Instances(feature_id) :
                 (\A i, j \in DOMAIN sentence :
                     RawCount(tf[1], tf[2], sentence[i]) = RawCount(tf[1], tf[2], sentence[j]))
                    => \A i \in DOMAIN sentence :
                          IdOf(feature_id, tf) \notin DOMAIN p_i_v[i]
           /\ nparses(sentence) = 1 => p_i_v[0] = EmptyMap

\* a sentence of several candidates written in relative mode: one feature is
\* observed with the same count on every candidate, another is exported
C29_Witness ==
    /\ pc = "write_next"
    /\ ~absolute_counts
    /\ nparses(sentence) >= 2
    /\ \E tf \in Instances(feature_id) :
          /\ RawCount(tf[1], tf[2], sentence[0]) > 0
          /\ \A i \in DOMAIN sentence :
                RawCount(tf[1], tf[2], sentence[i]) = RawCount(tf[1], tf[2], sentence[0])
    /\ \E i \in DOMAIN sentence : p_i_v[i] # EmptyMap

\* C30: best_parse returns the candidate of lowest index among those whose
\* score, the sum over the features that hold an id of exported value times
\* weight, is the greatest of the sentence; and when the weights were sized
\* from the maximum id read_feature_ids returned, no id it looks up is
\* outside the weight vector, so no assertion fails.
C30_BestParseFirstMaximum ==
    bp_pc = "best" =>
        LET s == call.sentence
            score(i) ==
                LET RECURSIVE Sum(_)
                    Sum(todo) ==
                        IF todo = {} THEN 0
                        ELSE LET tf == CHOOSE x \in todo : TRUE
                             IN  ExportedValue(tf[1], tf[2], s, i, absolute_counts)
                                    * weights[IdOf(bp_feature_id, tf)]
                                 + Sum(todo \ {tf})
                IN  Sum(Instances(bp_feature_id))
        IN  /\ ret.status = "ok"
            /\ IdSet(bp_feature_id) \subseteq DOMAIN weights
            /\ ret.i_max \in DOMAIN s
            /\ \A j \in DOMAIN s : score(j) <= score(ret.i_max)
            /\ \A j \in DOMAIN s : j < ret.i_max => score(j) < score(ret.i_max)

\* best_parse has returned a candidate other than the first on a sentence
\* whose greatest score is not 0 and is reached by no other candidate, two
\* features with weights other than 0 being exported
C30_Witness ==
    /\ bp_pc = "best"
    /\ ret.status = "ok"
    /\ ret.i_max > 0
    /\ nparses(call.sentence) >= 2
    /\ Cardinality({id \in DOMAIN weights : weights[id] # 0}) >= 2
    /\ Cardinality(DOMAIN feature_values(bp_feature_id, call.sentence,
                                         absolute_counts).p_i_v[ret.i_max]) >= 2

====
